---- MODULE Spec2Model ----
(***************************************************************************)
(* Model of the environmental monitoring node (src/main_module), its      *)
(* SD-card logger, its ESP-NOW transport and the receiver's decoder       *)
(* (src/reciever/main.py).                                                 *)
(*                                                                         *)
(* Representation of Python values:                                        *)
(*   - an int is an integer; a str is a string, except the formatted date, *)
(*     time and file name, which are tagged tuples of the numbers that     *)
(*     were formatted (the formats are injective);                         *)
(*   - a float that the code never rounds is an exact rational <<n, d>>    *)
(*     (value n/d, d > 0);                                                  *)
(*   - a float produced by round(x, 2) is the integer number of            *)
(*     hundredths;                                                         *)
(*   - a list is a sequence; index i of a Python list is index i+1 here;  *)
(*   - the unit strings are written in ASCII (mW/cm2, degC, ug/m3 for the  *)
(*     non-ASCII originals, which are byte-identical in sender and        *)
(*     receiver);                                                          *)
(*   - a CSV line is the sequence of its comma-separated fields (none of   *)
(*     the values the program formats contains a comma), together with the *)
(*     format that produced it (the header text or the row format).        *)
(***************************************************************************)
EXTENDS Integers, Sequences, FiniteSets, TLC

VARIABLES
    pc,              \* position of the sender program (startup, then main())
    tick,            \* number of the current iteration of main()'s loop
    hw,              \* what the hardware presents during the current tick
    sd_initialized,  \* sd_card_logging.sd_initialized
    sd_available,    \* sd_card_logging.sd_available
    csv_filename,    \* sd_card_logging.csv_filename (None is NoneVal)
    files,           \* the SD card: file name -> sequence of lines
    peers,           \* the ESP-NOW peer table of the sender
    rtc,             \* result of get_time() in this tick
    mq_data,         \* result of read_sensors() in this tick
    uv_data,         \* result of read_uv_sensor() in this tick
    bme_data,        \* result of read_bme280() in this tick
    dust_data,       \* result of read_dust_sensor() in this tick
    sensor_packet,   \* main()'s sensor_packet
    send_array,      \* main()'s send_array
    radio,           \* payload handed to the radio and not yet delivered
    stdout,          \* the last line the program printed
    trace,           \* the steps main() has executed in the current tick
    hw_fault,        \* reader whose hardware read failed in this tick
    log_result,      \* how the last log_to_csv call ended
    log_failed,      \* a write inside log_to_csv has failed during this run
    api,             \* the last call of a function called on its own, and its outcome
    rx,              \* the receiver node (reciever/main.py)
    gui,             \* the reader thread of the desktop application (app_v2.py)
    dashboard        \* the main window of the desktop application (app_v2.py)

vars == <<pc, tick, hw, sd_initialized, sd_available, csv_filename, files,
          peers, rtc, mq_data, uv_data, bme_data, dust_data, sensor_packet,
          send_array, radio, stdout, trace, hw_fault, log_result, log_failed,
          api, rx, gui, dashboard>>

\* What the sender program never touches.
elsewhere == <<api, rx, gui,
              dashboard>>

(***************************************************************************)
(* Bounds of the model.                                                    *)
(***************************************************************************)
MaxTicks == 3

\* Python's None
NoneVal == <<"None">>

(***************************************************************************)
(* Arithmetic helpers.                                                     *)
(***************************************************************************)
RECURSIVE GCD(_, _)
GCD(a, b) == IF b = 0 THEN a ELSE GCD(b, a % b)

Abs(x) == IF x < 0 THEN -x ELSE x

\* Nearest integer to p/q (p >= 0, q > 0), ties to the even neighbour.
RoundDiv(p, q) ==
    LET f == p \div q
        r == p % q
    IN  IF 2 * r < q THEN f
        ELSE IF 2 * r > q THEN f + 1
        ELSE IF f % 2 = 0 THEN f ELSE f + 1

\* round(x, 2) of the non-negative rational x, as a number of hundredths.
Round2(x) ==
    LET g == GCD(100, x[2])
    IN  RoundDiv((100 \div g) * x[1], x[2] \div g)

\* int(a * x / D + b) for rationals with a * x / D + b >= 0: Python's int()
\* truncates, which is the floor of a non-negative value.
TruncLin(a, x, D, b) ==
    LET g == GCD(Abs(x), D)
        n == a * (x \div g)
        d == D \div g
    IN  IF x >= 0 THEN b + (n \div d)
        ELSE b - (((-n) + d - 1) \div d)

\* dict.get(key, default)
Get(d, k, default) == IF k \in DOMAIN d THEN d[k] ELSE default

RECURSIVE SumSeq(_)
SumSeq(s) == IF s = <<>> THEN 0 ELSE Head(s) + SumSeq(Tail(s))

Range(s) == {s[i] : i \in DOMAIN s}

IsPrefix(s, t) == Len(s) <= Len(t) /\ s = SubSeq(t, 1, Len(s))

(***************************************************************************)
(* mq.py: gas sensors.                                                     *)
(***************************************************************************)
R0_MQ9 == <<49, 100>>
R0_MQ135 == <<529, 100>>

\* ratio >= t/10: a comparison that takes the threshold itself as well
AboveOrEqual(ratio, t) == 10 * ratio[1] >= t * ratio[2]

\* ratio > t/10 for the rational ratio
Above(ratio, t) == 10 * ratio[1] > t * ratio[2]

\* A table whose CH4 values grow with the ratio.
calculate_concentration_mq9_ch4_reversed(ratio, gas) ==
    IF gas = "LPG" THEN
        IF Above(ratio, 18) THEN 200
        ELSE IF Above(ratio, 10) THEN 1000
        ELSE IF Above(ratio, 6) THEN 5000
        ELSE 10000
    ELSE IF gas = "CO" THEN
        IF Above(ratio, 22) THEN 100
        ELSE IF Above(ratio, 12) THEN 200
        ELSE IF Above(ratio, 8) THEN 400
        ELSE 1000
    ELSE IF gas = "CH4" THEN
        IF Above(ratio, 17) THEN 5000
        ELSE IF Above(ratio, 10) THEN 1000
        ELSE IF Above(ratio, 7) THEN 500
        ELSE 200
    ELSE 0

calculate_concentration_mq9(ratio, gas) ==
    IF gas = "LPG" THEN
        IF Above(ratio, 18) THEN 200
        ELSE IF Above(ratio, 10) THEN 1000
        ELSE IF Above(ratio, 6) THEN 5000
        ELSE 10000
    ELSE IF gas = "CO" THEN
        IF Above(ratio, 22) THEN 100
        ELSE IF Above(ratio, 12) THEN 200
        ELSE IF Above(ratio, 8) THEN 400
        ELSE 1000
    ELSE IF gas = "CH4" THEN
        IF Above(ratio, 17) THEN 200
        ELSE IF Above(ratio, 10) THEN 500
        ELSE IF Above(ratio, 7) THEN 1000
        ELSE 5000
    ELSE 0

calculate_concentration_mq135(ratio, gas) ==
    IF gas = "CO2" THEN
        IF Above(ratio, 35) THEN 10
        ELSE IF Above(ratio, 25) THEN 20
        ELSE IF Above(ratio, 15) THEN 100
        ELSE IF Above(ratio, 10) THEN 200
        ELSE 500
    ELSE IF gas = "CO" THEN
        IF Above(ratio, 25) THEN 10
        ELSE IF Above(ratio, 18) THEN 20
        ELSE IF Above(ratio, 12) THEN 100
        ELSE IF Above(ratio, 8) THEN 200
        ELSE 500
    ELSE IF gas = "NH4" THEN
        IF Above(ratio, 22) THEN 10
        ELSE IF Above(ratio, 15) THEN 50
        ELSE IF Above(ratio, 10) THEN 100
        ELSE 200
    ELSE IF gas = "Ethanol" THEN
        IF Above(ratio, 20) THEN 10
        ELSE IF Above(ratio, 15) THEN 50
        ELSE IF Above(ratio, 10) THEN 100
        ELSE 300
    ELSE IF gas = "Toluene" THEN
        IF Above(ratio, 18) THEN 10
        ELSE IF Above(ratio, 12) THEN 50
        ELSE IF Above(ratio, 9) THEN 100
        ELSE 200
    ELSE IF gas = "Acetone" THEN
        IF Above(ratio, 15) THEN 10
        ELSE IF Above(ratio, 10) THEN 50
        ELSE IF Above(ratio, 7) THEN 100
        ELSE 300
    ELSE 0

\* sensor_voltage = count / 4095.0 * 3.3
MqVoltage(count) == <<33 * count, 40950>>

\* rs_gas = (3.3 - v) / v if v > 0 else 0, which is (4095 - count) / count
MqRs(count) == IF count > 0 THEN <<4095 - count, count>> ELSE <<0, 1>>

\* A ratio that falls back to 1.0 when there is no resistance to divide.
MqRatioFallbackOne(count, R0) ==
    LET rs == MqRs(count)
    IN  IF rs[1] > 0 THEN <<rs[1] * R0[2], rs[2] * R0[1]>> ELSE <<1, 1>>

\* ratio = rs_gas / R0 if rs_gas > 0 else 0
MqRatio(count, R0) ==
    LET rs == MqRs(count)
    IN  IF rs[1] > 0 THEN <<rs[1] * R0[2], rs[2] * R0[1]>> ELSE <<0, 1>>

read_sensors(count9, count135) ==
    LET ratio_mq9 == MqRatio(count9, R0_MQ9)
        ratio_mq135 == MqRatio(count135, R0_MQ135)
    IN  [ MQ9 |->
            [ Raw_ADC |-> count9,
              Voltage |-> MqVoltage(count9),
              RsR0 |-> ratio_mq9,
              LPG |-> calculate_concentration_mq9(ratio_mq9, "LPG"),
              CO |-> calculate_concentration_mq9(ratio_mq9, "CO"),
              CH4 |-> calculate_concentration_mq9(ratio_mq9, "CH4") ],
          MQ135 |->
            [ Raw_ADC |-> count135,
              Voltage |-> MqVoltage(count135),
              RsR0 |-> ratio_mq135,
              CO2 |-> calculate_concentration_mq135(ratio_mq135, "CO2"),
              CO |-> calculate_concentration_mq135(ratio_mq135, "CO"),
              NH4 |-> calculate_concentration_mq135(ratio_mq135, "NH4"),
              Ethanol |-> calculate_concentration_mq135(ratio_mq135, "Ethanol"),
              Toluene |-> calculate_concentration_mq135(ratio_mq135, "Toluene"),
              Acetone |-> calculate_concentration_mq135(ratio_mq135, "Acetone") ] ]

(***************************************************************************)
(* uv.py: UV sensor.                                                       *)
(***************************************************************************)
number_of_readings == 8

\* map_float(x, 0.99, 2.8, 0.0, 15.0) for x = running_value / 8 * 3.3 / 4095:
\* (x - 0.99) * 15 / 1.81 = 125 * (11 * running_value - 108108) / 1647100
UvMapped(running_value) == <<125 * (11 * running_value - 108108), 1647100>>

\* A reader that lets the mapped intensity go below 0.
read_uv_sensor_unclamped(samples) ==
    LET running_value == SumSeq(samples)
        uv_intensity == UvMapped(running_value)
    IN  [ Raw_ADC |-> <<running_value, number_of_readings>>,
          Voltage |-> <<33 * running_value, 40950 * number_of_readings>>,
          UV_Intensity |-> uv_intensity,
          UV_Index |-> IF uv_intensity[1] = 0 THEN <<0, 1>>
                       ELSE <<uv_intensity[1], uv_intensity[2] \div 10>> ]

read_uv_sensor(samples) ==
    LET running_value == SumSeq(samples)
        mapped == UvMapped(running_value)
        uv_intensity == IF mapped[1] < 0 THEN <<0, 1>> ELSE mapped
    IN  [ Raw_ADC |-> <<running_value, number_of_readings>>,
          Voltage |-> <<33 * running_value, 40950 * number_of_readings>>,
          UV_Intensity |-> uv_intensity,
          \* uv_intensity / 0.1
          UV_Index |-> IF uv_intensity[1] = 0 THEN <<0, 1>>
                       ELSE <<uv_intensity[1], uv_intensity[2] \div 10>> ]

(***************************************************************************)
(* dust_sensor.py: dust sensor.                                            *)
(***************************************************************************)
\* dust_density <= t/10
AtMost(x, t) == 10 * x[1] <= t * x[2]

\* An interpolation that leaves out the band's lower index.
AqiBandFromZero(x, lo, hi, bottom, top) ==
    TruncLin(top - bottom, 10 * x[1] - lo * x[2], (hi - lo) * x[2], 0)

\* int(((x - lo) / (hi - lo)) * (top - bottom) + bottom), lo and hi in tenths
AqiBand(x, lo, hi, bottom, top) ==
    TruncLin(top - bottom, 10 * x[1] - lo * x[2], (hi - lo) * x[2], bottom)

\* An index that keeps interpolating the last band above 500.4.
calculate_aqi_unclamped(dust_density) ==
    IF AtMost(dust_density, 120) THEN AqiBand(dust_density, 0, 120, 0, 50)
    ELSE IF AtMost(dust_density, 354) THEN AqiBand(dust_density, 121, 354, 51, 100)
    ELSE IF AtMost(dust_density, 554) THEN AqiBand(dust_density, 355, 554, 101, 150)
    ELSE IF AtMost(dust_density, 1504) THEN AqiBand(dust_density, 555, 1504, 151, 200)
    ELSE IF AtMost(dust_density, 2504) THEN AqiBand(dust_density, 1505, 2504, 201, 300)
    ELSE AqiBand(dust_density, 2505, 5004, 301, 500)

calculate_aqi(dust_density) ==
    IF AtMost(dust_density, 120) THEN AqiBand(dust_density, 0, 120, 0, 50)
    ELSE IF AtMost(dust_density, 354) THEN AqiBand(dust_density, 121, 354, 51, 100)
    ELSE IF AtMost(dust_density, 554) THEN AqiBand(dust_density, 355, 554, 101, 150)
    ELSE IF AtMost(dust_density, 1504) THEN AqiBand(dust_density, 555, 1504, 151, 200)
    ELSE IF AtMost(dust_density, 2504) THEN AqiBand(dust_density, 1505, 2504, 201, 300)
    ELSE IF AtMost(dust_density, 5004) THEN AqiBand(dust_density, 2505, 5004, 301, 500)
    ELSE 500

\* Labels whose bands leave their upper threshold to the next band.
get_health_level_strict(aqi) ==
    IF aqi < 50 THEN "Good"
    ELSE IF aqi < 100 THEN "Moderate"
    ELSE IF aqi < 150 THEN "Unhealthy for Sensitive Groups"
    ELSE IF aqi < 200 THEN "Unhealthy"
    ELSE IF aqi < 300 THEN "Very Unhealthy"
    ELSE IF aqi < 500 THEN "Hazardous"
    ELSE "Beyond AQI Scale"

get_health_level(aqi) ==
    IF aqi <= 50 THEN "Good"
    ELSE IF aqi <= 100 THEN "Moderate"
    ELSE IF aqi <= 150 THEN "Unhealthy for Sensitive Groups"
    ELSE IF aqi <= 200 THEN "Unhealthy"
    ELSE IF aqi <= 300 THEN "Very Unhealthy"
    ELSE IF aqi <= 500 THEN "Hazardous"
    ELSE "Beyond AQI Scale"

\* max(170 * (vo_measured / 4095.0 * 5.0) - 0.1, 0)
DustDensity(vo_measured) ==
    LET n == 1700 * vo_measured - 819
    IN  IF n > 0 THEN <<n, 8190>> ELSE <<0, 1>>

read_dust_sensor(vo_measured) ==
    LET dust_density == DustDensity(vo_measured)
        aqi == calculate_aqi(dust_density)
    IN  [ Raw_ADC |-> vo_measured,
          Voltage |-> <<5 * vo_measured, 4095>>,
          Dust_Density |-> dust_density,
          AQI |-> aqi,
          Health_Level |-> get_health_level(aqi) ]

(***************************************************************************)
(* bme.py and rtc.py: the I2C sensors.                                     *)
(***************************************************************************)
\* values is the driver's pair of strings; the parsed floats are the
\* numbers the driver printed (hundredths of a degree and of a hPa).
read_bme280(values, humidity) ==
    [ Temperature |-> <<values[1], 100>>,
      Pressure |-> <<values[2], 100>>,
      Humidity |-> humidity ]

\* datetime is the DS3231 tuple (year, month, day, weekday, hour, minute, second)
get_time(datetime) ==
    [ year |-> datetime[1], month |-> datetime[2], day |-> datetime[3],
      hour |-> datetime[5], minute |-> datetime[6], second |-> datetime[7],
      weekday |-> datetime[4] ]

(***************************************************************************)
(* main.py: the canonical packet and the compact array of one tick.        *)
(***************************************************************************)
\* f"{year}/{month:02}/{day:02}" and f"{hour:02}:{minute:02}:{second:02}"
RtcDate(r) == <<"date", r.year, r.month, r.day>>
RtcTime(r) == <<"time", r.hour, r.minute, r.second>>

\* round(Raw_ADC * 0.0008, 2) for a Raw_ADC that is a rational or an int
UvVoltage(raw) == RoundDiv(8 * raw[1], 100 * raw[2])

\* round(Raw_ADC * (1.0 / 820), 2)
DustVoltage(raw) == RoundDiv(100 * raw, 820)

Reading(v, u) == [value |-> v, unit |-> u]

SensorPacket(r, mq, uv, bme, dust) ==
    [ rtc |-> [ date |-> RtcDate(r), time |-> RtcTime(r) ],
      mq9 |->
        [ LPG |-> Reading(Get(Get(mq, "MQ9", <<>>), "LPG", 0), "ppm"),
          CO |-> Reading(Get(Get(mq, "MQ9", <<>>), "CO", 0), "ppm"),
          CH4 |-> Reading(Get(Get(mq, "MQ9", <<>>), "CH4", 0), "ppm") ],
      mq135 |->
        [ CO2 |-> Reading(Get(Get(mq, "MQ135", <<>>), "CO2", 0), "ppm"),
          CO |-> Reading(Get(Get(mq, "MQ135", <<>>), "CO", 0), "ppm"),
          alcohol |-> Reading(Get(Get(mq, "MQ135", <<>>), "Ethanol", 0), "ppm"),
          NH4 |-> Reading(Get(Get(mq, "MQ135", <<>>), "NH4", 0), "ppm"),
          toluene |-> Reading(Get(Get(mq, "MQ135", <<>>), "Toluene", 0), "ppm"),
          acetone |-> Reading(Get(Get(mq, "MQ135", <<>>), "Acetone", 0), "ppm") ],
      uv_sensor |->
        [ raw_adc |-> Reading(Get(uv, "Raw_ADC", <<0, 1>>), "counts"),
          voltage |-> Reading(UvVoltage(Get(uv, "Raw_ADC", <<0, 1>>)), "V"),
          uv_intensity |-> Reading(Round2(Get(uv, "UV_Intensity", <<0, 1>>)), "mW/cm2"),
          uv_index |-> Reading(Round2(Get(uv, "UV_Index", <<0, 1>>)), "index") ],
      bme280 |->
        [ temperature |-> Reading(Round2(Get(bme, "Temperature", <<0, 1>>)), "degC"),
          pressure |-> Reading(Round2(Get(bme, "Pressure", <<0, 1>>)), "hPa"),
          humidity |-> Reading(Round2(Get(bme, "Humidity", <<0, 1>>)), "%") ],
      dust_sensor |->
        [ raw_adc |-> Reading(Get(dust, "Raw_ADC", 0), "counts"),
          voltage |-> Reading(DustVoltage(Get(dust, "Raw_ADC", 0)), "V"),
          dust_density |-> Reading(Round2(Get(dust, "Dust_Density", <<0, 1>>)), "ug/m3"),
          AQI |-> Reading(Get(dust, "AQI", 0), "AQI"),
          health_level |-> Reading(Get(dust, "Health_Level", ""), "") ] ]

\* SendArray with the NH4 and the alcohol entries exchanged.
SendArrayNh4First(r, mq, uv, bme, dust) ==
    << RtcDate(r),                                    \* 0
       RtcTime(r),                                    \* 1
       Get(Get(mq, "MQ9", <<>>), "LPG", 0),           \* 2
       Get(Get(mq, "MQ9", <<>>), "CO", 0),            \* 3
       Get(Get(mq, "MQ9", <<>>), "CH4", 0),           \* 4
       Get(Get(mq, "MQ135", <<>>), "CO2", 0),         \* 5
       Get(Get(mq, "MQ135", <<>>), "CO", 0),          \* 6
       Get(Get(mq, "MQ135", <<>>), "NH4", 0),         \* 7
       Get(Get(mq, "MQ135", <<>>), "Ethanol", 0),     \* 8
       Get(Get(mq, "MQ135", <<>>), "Toluene", 0),     \* 9
       Get(Get(mq, "MQ135", <<>>), "Acetone", 0),     \* 10
       Get(uv, "Raw_ADC", <<0, 1>>),                  \* 11
       UvVoltage(Get(uv, "Raw_ADC", <<0, 1>>)),       \* 12
       Round2(Get(uv, "UV_Intensity", <<0, 1>>)),     \* 13
       Round2(Get(uv, "UV_Index", <<0, 1>>)),         \* 14
       Round2(Get(bme, "Temperature", <<0, 1>>)),     \* 15
       Round2(Get(bme, "Pressure", <<0, 1>>)),        \* 16
       Round2(Get(bme, "Humidity", <<0, 1>>)),        \* 17
       Get(dust, "Raw_ADC", 0),                       \* 18
       DustVoltage(Get(dust, "Raw_ADC", 0)),          \* 19
       Round2(Get(dust, "Dust_Density", <<0, 1>>)),   \* 20
       Get(dust, "AQI", 0),                           \* 21
       Get(dust, "Health_Level", "") >>               \* 22

SendArray(r, mq, uv, bme, dust) ==
    << RtcDate(r),                                    \* 0
       RtcTime(r),                                    \* 1
       Get(Get(mq, "MQ9", <<>>), "LPG", 0),           \* 2
       Get(Get(mq, "MQ9", <<>>), "CO", 0),            \* 3
       Get(Get(mq, "MQ9", <<>>), "CH4", 0),           \* 4
       Get(Get(mq, "MQ135", <<>>), "CO2", 0),         \* 5
       Get(Get(mq, "MQ135", <<>>), "CO", 0),          \* 6
       Get(Get(mq, "MQ135", <<>>), "Ethanol", 0),     \* 7
       Get(Get(mq, "MQ135", <<>>), "NH4", 0),         \* 8
       Get(Get(mq, "MQ135", <<>>), "Toluene", 0),     \* 9
       Get(Get(mq, "MQ135", <<>>), "Acetone", 0),     \* 10
       Get(uv, "Raw_ADC", <<0, 1>>),                  \* 11
       UvVoltage(Get(uv, "Raw_ADC", <<0, 1>>)),       \* 12
       Round2(Get(uv, "UV_Intensity", <<0, 1>>)),     \* 13
       Round2(Get(uv, "UV_Index", <<0, 1>>)),         \* 14
       Round2(Get(bme, "Temperature", <<0, 1>>)),     \* 15
       Round2(Get(bme, "Pressure", <<0, 1>>)),        \* 16
       Round2(Get(bme, "Humidity", <<0, 1>>)),        \* 17
       Get(dust, "Raw_ADC", 0),                       \* 18
       DustVoltage(Get(dust, "Raw_ADC", 0)),          \* 19
       Round2(Get(dust, "Dust_Density", <<0, 1>>)),   \* 20
       Get(dust, "AQI", 0),                           \* 21
       Get(dust, "Health_Level", "") >>               \* 22

(***************************************************************************)
(* reciever/main.py: the decoder.                                          *)
(***************************************************************************)
\* The packet field that convert_compact_to_full fills from compact[i]
\* (entry i+1 of this sequence), and the unit it attaches to it.
DecoderFields ==
    << <<"rtc", "date", "">>,
       <<"rtc", "time", "">>,
       <<"mq9", "LPG", "ppm">>,
       <<"mq9", "CO", "ppm">>,
       <<"mq9", "CH4", "ppm">>,
       <<"mq135", "CO2", "ppm">>,
       <<"mq135", "CO", "ppm">>,
       <<"mq135", "alcohol", "ppm">>,
       <<"mq135", "NH4", "ppm">>,
       <<"mq135", "toluene", "ppm">>,
       <<"mq135", "acetone", "ppm">>,
       <<"uv_sensor", "raw_adc", "counts">>,
       <<"uv_sensor", "voltage", "V">>,
       <<"uv_sensor", "uv_intensity", "mW/cm2">>,
       <<"uv_sensor", "uv_index", "index">>,
       <<"bme280", "temperature", "degC">>,
       <<"bme280", "pressure", "hPa">>,
       <<"bme280", "humidity", "%">>,
       <<"dust_sensor", "raw_adc", "counts">>,
       <<"dust_sensor", "voltage", "V">>,
       <<"dust_sensor", "dust_density", "ug/m3">>,
       <<"dust_sensor", "AQI", "AQI">>,
       <<"dust_sensor", "health_level", "">> >>

DecoderGroups == {DecoderFields[i][1] : i \in DOMAIN DecoderFields}

DecoderKeys(g) ==
    {DecoderFields[i][2] : i \in {j \in DOMAIN DecoderFields : DecoderFields[j][1] = g}}

DecoderIndex(g, k) ==
    CHOOSE i \in DOMAIN DecoderFields :
        DecoderFields[i][1] = g /\ DecoderFields[i][2] = k

\* convert_compact_to_full re-attaching no unit.
convert_compact_to_full_no_units(compact) ==
    [ g \in DecoderGroups |->
        [ k \in DecoderKeys(g) |->
            IF g = "rtc" THEN compact[DecoderIndex(g, k)]
            ELSE Reading(compact[DecoderIndex(g, k)], "") ] ]

\* Raises IndexError (a compact list shorter than 23) or TypeError (a value
\* that cannot be indexed): the caller models those; here compact is a list
\* of at least 23 elements.
convert_compact_to_full(compact) ==
    [ g \in DecoderGroups |->
        [ k \in DecoderKeys(g) |->
            IF g = "rtc" THEN compact[DecoderIndex(g, k)]
            ELSE Reading(compact[DecoderIndex(g, k)],
                         DecoderFields[DecoderIndex(g, k)][3]) ] ]

(***************************************************************************)
(* sd_card_logging.py: the SD-card logger.  Each function is an operator   *)
(* of the module's globals and of the outcome of its I/O, giving the new   *)
(* values of what it can change.                                           *)
(***************************************************************************)
\* "logs_{date}_{time}.csv" for the time.localtime() tuple t
LogName(t) == <<"logs", t[1], t[2]>>

Header ==
    << "date", "time",
       "MQ9_LPG", "MQ9_CO", "MQ9_CH4",
       "MQ135_CO2", "MQ135_CO", "MQ135_alcohol", "MQ135_NH4",
       "MQ135_toluene", "MQ135_acetone",
       "UV_raw_adc", "UV_voltage", "UV_uv_intensity", "UV_uv_index",
       "BME280_temperature", "BME280_pressure", "BME280_humidity",
       "Dust_raw_adc", "Dust_voltage", "Dust_dust_density", "Dust_AQI",
       "Dust_health_level" >>

\* The number of "{}" replacement fields of the row format string.
RowPlaceholders == 22

\* The positional arguments of the row's format() call.
RowArgs(p) ==
    LET val(g, k, default) ==
            Get(Get(Get(p, g, <<>>), k, <<>>), "value", default)
    IN  << Get(Get(p, "rtc", <<>>), "date", ""),
           Get(Get(p, "rtc", <<>>), "time", ""),
           val("mq9", "LPG", 0), val("mq9", "CO", 0), val("mq9", "CH4", 0),
           val("mq135", "CO2", 0), val("mq135", "CO", 0),
           val("mq135", "alcohol", 0), val("mq135", "NH4", 0),
           val("mq135", "toluene", 0), val("mq135", "acetone", 0),
           val("uv_sensor", "raw_adc", 0), val("uv_sensor", "voltage", 0),
           val("uv_sensor", "uv_intensity", 0), val("uv_sensor", "uv_index", 0),
           val("bme280", "temperature", 0), val("bme280", "pressure", 0),
           val("bme280", "humidity", 0),
           val("dust_sensor", "raw_adc", 0), val("dust_sensor", "voltage", 0),
           val("dust_sensor", "dust_density", 0), val("dust_sensor", "AQI", 0),
           val("dust_sensor", "health_level", "") >>

\* str.format fills the replacement fields from the leading positional
\* arguments and ignores the arguments that are left over.
FormatRow(args) == SubSeq(args, 1, RowPlaceholders)

HeaderLine == [kind |-> "header", fields |-> Header]
RowLine(packet) == [kind |-> "row", fields |-> FormatRow(RowArgs(packet))]

\* mount_ok: whether SDCard() and os.mount() succeed
\* An initialiser that gives up for good after its first failure.
init_sd_card_sticky(mount_ok) ==
    IF mount_ok /\ "init_sd_card:failed" \notin Range(trace)
    THEN [ sd_initialized |-> TRUE, sd_available |-> TRUE,
           stdout |-> "SD card initialized successfully." ]
    ELSE [ sd_initialized |-> sd_initialized, sd_available |-> FALSE,
           stdout |-> "SD card initialization failed" ]

init_sd_card(mount_ok) ==
    IF mount_ok
    THEN [ sd_initialized |-> TRUE, sd_available |-> TRUE,
           stdout |-> "SD card initialized successfully." ]
    ELSE [ sd_initialized |-> sd_initialized, sd_available |-> FALSE,
           stdout |-> "SD card initialization failed" ]

\* open(path, "w") creates or truncates the file
OpenW(fs, name) == (name :> <<>>) @@ fs

\* open(path, "a") creates the file when it does not exist
OpenA(fs, name) == IF name \in DOMAIN fs THEN fs ELSE (name :> <<>>) @@ fs

WriteLine(fs, name, line) == (name :> Append(fs[name], line)) @@ fs

IoOutcomes == {"ok", "open_fails", "write_fails"}

\* create_new_csv without its sd_available check.
create_new_csv_unguarded(t, io) ==
    LET name == LogName(t) IN
    IF io = "open_fails"
    THEN [ csv_filename |-> name, files |-> files,
           stdout |-> "Error creating CSV file" ]
    ELSE IF io = "write_fails"
    THEN [ csv_filename |-> name, files |-> OpenW(files, name),
           stdout |-> "Error creating CSV file" ]
    ELSE [ csv_filename |-> name,
           files |-> WriteLine(OpenW(files, name), name, HeaderLine),
           stdout |-> stdout ]

\* t: time.localtime(); io: what the medium does with the open and the write
create_new_csv(t, io) ==
    IF ~sd_available
    THEN [ csv_filename |-> csv_filename, files |-> files,
           stdout |-> "Skipping CSV creation: No SD card detected." ]
    ELSE LET name == LogName(t) IN
         IF io = "open_fails"
         THEN [ csv_filename |-> name, files |-> files,
                stdout |-> "Error creating CSV file" ]
         ELSE IF io = "write_fails"
         THEN [ csv_filename |-> name, files |-> OpenW(files, name),
                stdout |-> "Error creating CSV file" ]
         ELSE [ csv_filename |-> name,
                files |-> WriteLine(OpenW(files, name), name, HeaderLine),
                stdout |-> stdout ]

\* A handler that names TypeError only.
LogCatchesTypeErrorOnly(exception) == exception = "TypeError"

\* The exceptions the try block of log_to_csv can raise are all handled by
\* its "except Exception".
LogCatches(exception) == exception \in {"TypeError", "OSError"}

\* io: what the medium does with the open and the write
\* A logger that names the file again at every call.
log_to_csv_file_per_call(packet, io) ==
    IF ~sd_available
    THEN [ files |-> files, result |-> "skipped",
           sd_available |-> sd_available,
           stdout |-> "Skipping logging: No SD card detected." ]
    ELSE LET name == <<"logs", tick, Len(trace)>>
         IN  [ files |-> WriteLine(OpenA(files, name), name, RowLine(packet)),
               result |-> "written", sd_available |-> sd_available,
               stdout |-> stdout ]

log_to_csv(packet, io) ==
    IF ~sd_available
    THEN [ files |-> files, result |-> "skipped",
           sd_available |-> sd_available,
           stdout |-> "Skipping logging: No SD card detected." ]
    ELSE LET row == RowLine(packet)
             \* SD_MOUNT_POINT + "/" + csv_filename raises for None
             exception == IF csv_filename = NoneVal THEN "TypeError"
                          ELSE IF io = "ok" THEN "none" ELSE "OSError"
             opened == IF csv_filename # NoneVal /\ io # "open_fails"
                       THEN OpenA(files, csv_filename) ELSE files
         IN  IF exception = "none"
             THEN [ files |-> WriteLine(opened, csv_filename, row),
                    result |-> "written", sd_available |-> sd_available,
                    stdout |-> stdout ]
             ELSE IF LogCatches(exception)
             THEN [ files |-> opened, result |-> "error",
                    sd_available |-> sd_available,
                    stdout |-> "Error logging to CSV" ]
             ELSE [ files |-> opened, result |-> "raised",
                    sd_available |-> sd_available,
                    stdout |-> "Traceback" ]

(***************************************************************************)
(* lora.py: the ESP-NOW transport of the sender.                           *)
(***************************************************************************)
\* b'\x14\x2b\x2f\xc4\xc7\x5c', the six bytes of the MAC address
receiver_mac == <<20, 43, 47, 196, 199, 92>>

\* json.dumps(packet).encode(): the payload is the JSON text of the list
\* json.dumps(packet).encode(): the bytes handed to _e.send.  A byte string
\* is described by what decoding it gives: kind "none" is the None that
\* e.recv() returns on a timeout, kind "empty" is b'', utf8 says whether
\* bytes.decode accepts it, text.valid whether json.loads accepts the text,
\* text.value is the JSON value the text denotes.
JsonValue(type, items) == [type |-> type, items |-> items]
NoText == [valid |-> FALSE, value |-> JsonValue("none", <<>>)]
NoMsg == [kind |-> "none", utf8 |-> FALSE, text |-> NoText]
json_dumps(packet) == [valid |-> TRUE, value |-> JsonValue("array", packet)]
encode(text) == [kind |-> "bytes", utf8 |-> TRUE, text |-> text]
JsonPayload(packet) == encode(json_dumps(packet))

\* msg.decode() followed by json.loads: the value, or the exception raised.
Decoded(msg) ==
    IF ~msg.utf8 THEN [exception |-> "UnicodeError", value |-> NoText.value]
    ELSE IF ~msg.text.valid THEN [exception |-> "ValueError", value |-> NoText.value]
    ELSE [exception |-> "none", value |-> msg.text.value]

\* "if msg:" is false for None and for b''
Truthy(msg) == msg.kind = "bytes"

\* ok: whether _e.add_peer succeeds
add_peer(peer_mac, ok) ==
    IF ok THEN [ peers |-> Append(peers, peer_mac), stdout |-> "Added peer" ]
    ELSE [ peers |-> peers, stdout |-> "Failed to add peer" ]

\* link_ok: whether _e.send succeeds for a registered peer
\* peers_method: whether the ESPNow object of the firmware has the peers()
\* method that line 42 calls outside the try; MicroPython's documented
\* ESPNow class has get_peers() and peers_table and no peers(), and the call
\* then raises AttributeError.
send_packet(packet, peer_mac, peers_method, link_ok) ==
    IF peer_mac = NoneVal /\ ~peers_method
    THEN [ radio |-> radio, stdout |-> "Traceback", raised |-> TRUE ]
    ELSE IF peer_mac = NoneVal /\ peers = <<>>
    THEN [ radio |-> radio, stdout |-> "No peers available to send!",
           raised |-> FALSE ]
    ELSE LET target == IF peer_mac = NoneVal THEN peers[1] ELSE peer_mac
         IN  IF target \in Range(peers) /\ link_ok
             THEN [ radio |-> <<target, JsonPayload(packet)>>,
                    stdout |-> "Sent packet to", raised |-> FALSE ]
             ELSE [ radio |-> radio, stdout |-> "Error sending packet",
                    raised |-> FALSE ]

\* lora.py lines 57-73: what receive_packet returns and prints when
\* _e.recv() hands it (sender_mac, msg).
receive_packet(sender_mac, msg) ==
    IF Truthy(msg)
    THEN IF Decoded(msg).exception = "none"
         THEN [ sender |-> sender_mac, packet |-> Decoded(msg).value,
                stdout |-> stdout ]
         ELSE [ sender |-> sender_mac, packet |-> NoText.value,
                stdout |-> "Error decoding JSON packet" ]
    ELSE [ sender |-> NoneVal, packet |-> NoText.value, stdout |-> stdout ]

(***************************************************************************)
(* What the hardware can present to the node.                              *)
(***************************************************************************)
\* DS3231 tuple, MQ-9 and MQ-135 counts, the 8 UV samples, the dust count
\* and the BME280 driver's temperature and pressure (in hundredths).
HwSamples ==
    { [ datetime |-> <<2025, 2, 12, 3, 9, 55, 29>>,
        mq9 |-> 100, mq135 |-> 300,
        uv |-> <<1500, 1500, 1500, 1500, 1500, 1500, 1500, 1500>>,
        dust |-> 300, bme |-> <<2560, 101325>> ],
      [ datetime |-> <<2025, 2, 12, 3, 9, 55, 30>>,
        mq9 |-> 2000, mq135 |-> 100,
        uv |-> <<4095, 4095, 4095, 4095, 4095, 4095, 4095, 4090>>,
        dust |-> 3277, bme |-> <<-512, 90000>> ],
      [ datetime |-> <<2025, 12, 31, 3, 23, 59, 59>>,
        mq9 |-> 0, mq135 |-> 4095,
        uv |-> <<0, 0, 0, 0, 0, 0, 0, 0>>,
        dust |-> 0, bme |-> <<0, 101300>> ] }

\* random.uniform(23, 26)
HumiditySamples == { <<23, 1>>, <<24567, 1000>>, <<25999, 1000>> }

\* time.localtime() of the ESP32 when the log is created: (date, time)
LocalTimes == { <<20250212, 95520>>, <<20000101, 3>> }

(***************************************************************************)
(* The parts of the state that belong to the other programs, at rest.      *)
(***************************************************************************)
NoCall == [fn |-> "none", arg |-> <<>>, ret |-> <<>>, raised |-> FALSE]

\* The receiver before its first e.recv().
\* errors counts the error lines printed so far.
RxIdle == [pc |-> "recv", sender |-> NoneVal, msg |-> NoMsg,
           printed |-> <<>>, count |-> 0, errors |-> 0]

\* A line of text by what the reader looks at: its first character ("" for
\* the empty line) and, for json.loads, whether it parses and to what.
TextLine(first, parses, value) == [first |-> first, parses |-> parses, value |-> value]
NoLine == TextLine("", FALSE, <<>>)

\* SensorDataThread after __init__: serial_conn is "None" or "open"; read,
\* line and emitted describe the last iteration of run() (what it read from,
\* the text it got, what it handed to data_signal.emit); count counts the
\* iterations.  at is the statement run() is at and ui the statement the GUI
\* thread is at inside onConnectClicked, where the two threads are followed
\* statement by statement; serial_conn is then also "closed" for a port
\* object that has been closed and is still referenced.
GuiIdle == [source |-> "Simulated Sensors", serial_conn |-> "None",
            state |-> "created", read |-> "none", line |-> NoLine,
            emitted |-> <<>>, count |-> 0, at |-> "while", ui |-> "idle"]

\* The two first rows of the warning table; the other thirteen sensors are
\* handled by the same code.
warning_sensors == <<"MQ9 LPG", "MQ9 CO">>

warning_sensor_mapping ==
    ("MQ9 LPG" :> <<"mq9", "LPG">>) @@ ("MQ9 CO" :> <<"mq9", "CO">>)

\* SensorDashboard after __init__.  warning_settings is the dict of the
\* warning tab, as the sequence of its items; log is the text of the logs
\* tab, entry by entry; calls are the updateData calls that have not
\* returned, each waiting in the message box it opened, the innermost last;
\* delivered are the packets data_signal has handed over so far, each with
\* the settings in force at that moment.
DashboardIdle ==
    [ warning_settings |-> <<>>,
      warning_state |-> [sensor \in DOMAIN warning_sensor_mapping |-> FALSE],
      log |-> <<>>,
      calls |-> <<>>,
      delivered |-> <<>> ]

(***************************************************************************)
(* main.py: the sender program.                                            *)
(***************************************************************************)
\* The loop body with the transmission placed before the logging.
MainStepsSendFirst ==
    << "get_time", "read_sensors", "read_uv_sensor", "read_bme280",
       "read_dust_sensor", "assemble", "print", "send_array", "send_packet",
       "log_to_csv", "sleep" >>

\* The statements of main()'s loop body, in program order.
MainSteps ==
    << "get_time", "read_sensors", "read_uv_sensor", "read_bme280",
       "read_dust_sensor", "assemble", "print", "log_to_csv", "send_array",
       "send_packet", "sleep" >>

StepIndex(p) == CHOOSE i \in DOMAIN MainSteps : MainSteps[i] = p

StepAfter(p) ==
    IF StepIndex(p) = Len(MainSteps) THEN MainSteps[1]
    ELSE MainSteps[StepIndex(p) + 1]

Init ==
    /\ pc = "init_sd_card"
    /\ tick = 0
    /\ hw \in HwSamples
    /\ sd_initialized = FALSE
    /\ sd_available = FALSE
    /\ csv_filename = NoneVal
    /\ files = [n \in {} |-> <<>>]
    /\ peers = <<>>
    /\ rtc = NoneVal
    /\ mq_data = NoneVal
    /\ uv_data = NoneVal
    /\ bme_data = NoneVal
    /\ dust_data = NoneVal
    /\ sensor_packet = NoneVal
    /\ send_array = NoneVal
    /\ radio = <<>>
    /\ stdout = ""
    /\ trace = <<>>
    /\ hw_fault = "none"
    /\ log_result = "none"
    /\ log_failed = FALSE
    /\ api = NoCall
    /\ rx = RxIdle
    /\ gui = GuiIdle
    /\ dashboard = DashboardIdle

locals == <<rtc, mq_data, uv_data, bme_data, dust_data, sensor_packet, send_array>>
logger == <<sd_initialized, sd_available, csv_filename, files>>

\* main.py line 18
StartInitSd ==
    /\ pc = "init_sd_card"
    /\ \E mount_ok \in BOOLEAN :
        LET r == init_sd_card(mount_ok)
        IN  /\ sd_initialized' = r.sd_initialized
            /\ sd_available' = r.sd_available
            /\ stdout' = r.stdout
    /\ pc' = "create_new_csv"
    /\ UNCHANGED <<tick, hw, csv_filename, files, peers, locals, radio, trace,
                   hw_fault, log_result, log_failed>>
    /\ UNCHANGED elsewhere

\* main.py line 19
StartCreateCsv ==
    /\ pc = "create_new_csv"
    /\ \E t \in LocalTimes, io \in IoOutcomes :
        LET r == create_new_csv(t, io)
        IN  /\ csv_filename' = r.csv_filename
            /\ files' = r.files
            /\ stdout' = r.stdout
    /\ pc' = "add_peer"
    /\ UNCHANGED <<tick, hw, sd_initialized, sd_available, peers, locals,
                   radio, trace, hw_fault, log_result, log_failed>>
    /\ UNCHANGED elsewhere

\* main.py lines 22-23, then the call of main()
StartAddPeer ==
    /\ pc = "add_peer"
    /\ \E ok \in BOOLEAN :
        LET r == add_peer(receiver_mac, ok)
        IN  /\ peers' = r.peers
            /\ stdout' = r.stdout
    /\ pc' = MainSteps[1]
    /\ tick' = 1
    /\ UNCHANGED <<hw, logger, locals, radio, trace, hw_fault, log_result,
                   log_failed>>
    /\ UNCHANGED elsewhere

\* A statement of the loop body that completes goes on to the next one.
Advance ==
    /\ pc' = StepAfter(pc)
    /\ trace' = Append(trace, pc)

\* An exception that nothing catches ends main() and the program.
Crash(reader) ==
    /\ pc' = "crashed"
    /\ hw_fault' = reader
    /\ stdout' = "Traceback"
    /\ UNCHANGED trace

\* main.py line 30; rtc.datetime() is an I2C transfer and can raise OSError
GetTime ==
    /\ pc = "get_time"
    /\ \E i2c_ok \in BOOLEAN :
        IF i2c_ok
        THEN /\ rtc' = get_time(hw.datetime)
             /\ Advance
             /\ UNCHANGED <<stdout, hw_fault>>
        ELSE /\ Crash("get_time")
             /\ UNCHANGED rtc
    /\ UNCHANGED <<tick, hw, logger, peers, mq_data, uv_data, bme_data,
                   dust_data, sensor_packet, send_array, radio, log_result,
                   log_failed>>
    /\ UNCHANGED elsewhere

\* main.py line 31
ReadSensors ==
    /\ pc = "read_sensors"
    /\ mq_data' = read_sensors(hw.mq9, hw.mq135)
    /\ Advance
    /\ UNCHANGED <<tick, hw, logger, peers, rtc, uv_data, bme_data, dust_data,
                   sensor_packet, send_array, radio, stdout, hw_fault,
                   log_result, log_failed>>
    /\ UNCHANGED elsewhere

\* main.py line 32
ReadUv ==
    /\ pc = "read_uv_sensor"
    /\ uv_data' = read_uv_sensor(hw.uv)
    /\ Advance
    /\ UNCHANGED <<tick, hw, logger, peers, rtc, mq_data, bme_data, dust_data,
                   sensor_packet, send_array, radio, stdout, hw_fault,
                   log_result, log_failed>>
    /\ UNCHANGED elsewhere

\* main.py line 33; bme.values is an I2C transfer and can raise OSError
ReadBme ==
    /\ pc = "read_bme280"
    /\ \E i2c_ok \in BOOLEAN, humidity \in HumiditySamples :
        IF i2c_ok
        THEN /\ bme_data' = read_bme280(hw.bme, humidity)
             /\ Advance
             /\ UNCHANGED <<stdout, hw_fault>>
        ELSE /\ Crash("read_bme280")
             /\ UNCHANGED bme_data
    /\ UNCHANGED <<tick, hw, logger, peers, rtc, mq_data, uv_data, dust_data,
                   sensor_packet, send_array, radio, log_result, log_failed>>
    /\ UNCHANGED elsewhere

\* main.py line 34
ReadDust ==
    /\ pc = "read_dust_sensor"
    /\ dust_data' = read_dust_sensor(hw.dust)
    /\ Advance
    /\ UNCHANGED <<tick, hw, logger, peers, rtc, mq_data, uv_data, bme_data,
                   sensor_packet, send_array, radio, stdout, hw_fault,
                   log_result, log_failed>>
    /\ UNCHANGED elsewhere

\* main.py lines 39-77
Assemble ==
    /\ pc = "assemble"
    /\ sensor_packet' = SensorPacket(rtc, mq_data, uv_data, bme_data, dust_data)
    /\ Advance
    /\ UNCHANGED <<tick, hw, logger, peers, rtc, mq_data, uv_data, bme_data,
                   dust_data, send_array, radio, stdout, hw_fault, log_result,
                   log_failed>>
    /\ UNCHANGED elsewhere

\* main.py line 80
PrintPacket ==
    /\ pc = "print"
    /\ stdout' = <<"json", sensor_packet>>
    /\ Advance
    /\ UNCHANGED <<tick, hw, logger, peers, locals, radio, hw_fault,
                   log_result, log_failed>>
    /\ UNCHANGED elsewhere

\* main.py line 82
LogToCsv ==
    /\ pc = "log_to_csv"
    /\ \E io \in IoOutcomes :
        LET r == log_to_csv(sensor_packet, io)
        IN  /\ files' = r.files
            /\ sd_available' = r.sd_available
            /\ stdout' = r.stdout
            /\ log_result' = r.result
            /\ log_failed' = (log_failed \/ r.result \in {"error", "raised"})
            /\ IF r.result = "raised"
               THEN pc' = "crashed" /\ UNCHANGED trace
               ELSE Advance
    /\ UNCHANGED <<tick, hw, sd_initialized, csv_filename, peers, locals,
                   radio, hw_fault>>
    /\ UNCHANGED elsewhere

\* main.py lines 87-111
BuildSendArray ==
    /\ pc = "send_array"
    /\ send_array' = SendArray(rtc, mq_data, uv_data, bme_data, dust_data)
    /\ Advance
    /\ UNCHANGED <<tick, hw, logger, peers, rtc, mq_data, uv_data, bme_data,
                   dust_data, sensor_packet, radio, stdout, hw_fault,
                   log_result, log_failed>>
    /\ UNCHANGED elsewhere

\* main.py line 114
\* A send step that registers the receiver again after a send that failed.
SendPacketRegistersAgain ==
    /\ pc = "send_packet"
    /\ \E peers_method \in BOOLEAN, link_ok \in BOOLEAN :
        LET r == send_packet(send_array, receiver_mac, peers_method, link_ok)
        IN  /\ radio' = r.radio
            /\ stdout' = r.stdout
            /\ peers' = IF r.stdout = "Error sending packet"
                        THEN Append(peers, receiver_mac) ELSE peers
            /\ Advance
    /\ UNCHANGED <<tick, hw, logger, locals, hw_fault, log_result,
                   log_failed>>
    /\ UNCHANGED elsewhere

SendPacket ==
    /\ pc = "send_packet"
    /\ \E peers_method \in BOOLEAN, link_ok \in BOOLEAN :
        LET r == send_packet(send_array, receiver_mac, peers_method, link_ok)
        IN  /\ radio' = r.radio
            /\ stdout' = r.stdout
            /\ IF r.raised
               THEN pc' = "crashed" /\ UNCHANGED trace
               ELSE Advance
    /\ UNCHANGED <<tick, hw, logger, peers, locals, hw_fault, log_result,
                   log_failed>>
    /\ UNCHANGED elsewhere

\* main.py line 116 and the jump back to line 26.  During the second the
\* radio delivers or drops what it holds and the environment changes; the
\* locals of the tick are dead, each is assigned again before it is read.
Sleep ==
    /\ pc = "sleep"
    /\ tick < MaxTicks
    /\ tick' = tick + 1
    /\ pc' = StepAfter(pc)
    /\ trace' = <<>>
    /\ hw' \in HwSamples
    /\ radio' = <<>>
    /\ rtc' = NoneVal
    /\ mq_data' = NoneVal
    /\ uv_data' = NoneVal
    /\ bme_data' = NoneVal
    /\ dust_data' = NoneVal
    /\ sensor_packet' = NoneVal
    /\ send_array' = NoneVal
    /\ UNCHANGED <<logger, peers, stdout, hw_fault, log_result, log_failed>>
    /\ UNCHANGED elsewhere

Next ==
    \/ StartInitSd
    \/ StartCreateCsv
    \/ StartAddPeer
    \/ GetTime
    \/ ReadSensors
    \/ ReadUv
    \/ ReadBme
    \/ ReadDust
    \/ Assemble
    \/ PrintPacket
    \/ LogToCsv
    \/ BuildSendArray
    \/ SendPacket
    \/ Sleep

Spec == Init /\ [][Next]_vars

(***************************************************************************)
(* sd_card_logging.py called on its own: a caller that makes any sequence  *)
(* of init_sd_card, create_new_csv and log_to_csv calls.  tick counts the  *)
(* calls, trace remembers them, api is the last call.                      *)
(***************************************************************************)
MaxCalls == 4

\* The packet main.py would assemble from one hardware sample.
PacketFrom(h) ==
    SensorPacket(get_time(h.datetime), read_sensors(h.mq9, h.mq135),
                 read_uv_sensor(h.uv), read_bme280(h.bme, <<23, 1>>),
                 read_dust_sensor(h.dust))

\* Every module freshly imported and nothing called yet; what runs is named
\* by pc.
Fresh(program) ==
    /\ pc = program
    /\ tick = 0
    /\ hw = CHOOSE h \in HwSamples : h.dust = 300
    /\ sd_initialized = FALSE
    /\ sd_available = FALSE
    /\ csv_filename = NoneVal
    /\ files = [n \in {} |-> <<>>]
    /\ peers = <<>>
    /\ rtc = NoneVal
    /\ mq_data = NoneVal
    /\ uv_data = NoneVal
    /\ bme_data = NoneVal
    /\ dust_data = NoneVal
    /\ sensor_packet = NoneVal
    /\ send_array = NoneVal
    /\ radio = <<>>
    /\ stdout = ""
    /\ trace = <<>>
    /\ hw_fault = "none"
    /\ log_result = "none"
    /\ log_failed = FALSE
    /\ api = NoCall
    /\ rx = RxIdle
    /\ gui = GuiIdle
    /\ dashboard = DashboardIdle

InitLogger == Fresh("logger_api")

\* os.mount raises OSError for a mount point that is already mounted, so the
\* mount can only succeed while no earlier call has mounted the card.
CallInitSdCard ==
    /\ pc = "logger_api"
    /\ tick < MaxCalls
    /\ \E mount_ok \in (IF sd_initialized THEN {FALSE} ELSE BOOLEAN) :
        LET r == init_sd_card(mount_ok)
        IN  /\ sd_initialized' = r.sd_initialized
            /\ sd_available' = r.sd_available
            /\ stdout' = r.stdout
            /\ api' = [fn |-> "init_sd_card", arg |-> <<mount_ok>>,
                       ret |-> NoneVal, raised |-> FALSE]
            /\ trace' = Append(trace, IF mount_ok THEN "init_sd_card:ok"
                                      ELSE "init_sd_card:failed")
    /\ tick' = tick + 1
    /\ UNCHANGED <<pc, hw, csv_filename, files, peers, locals, radio,
                   hw_fault, log_result, log_failed, rx, gui, dashboard>>

CallCreateNewCsv ==
    /\ pc = "logger_api"
    /\ tick < MaxCalls
    /\ \E t \in LocalTimes, io \in IoOutcomes :
        LET r == create_new_csv(t, io)
        IN  /\ csv_filename' = r.csv_filename
            /\ files' = r.files
            /\ stdout' = r.stdout
            /\ api' = [fn |-> "create_new_csv", arg |-> <<t, io>>,
                       ret |-> NoneVal, raised |-> FALSE]
    /\ trace' = Append(trace, "create_new_csv")
    /\ tick' = tick + 1
    /\ UNCHANGED <<pc, hw, sd_initialized, sd_available, peers, locals, radio,
                   hw_fault, log_result, log_failed, rx, gui, dashboard>>

CallLogToCsv ==
    /\ pc = "logger_api"
    /\ tick < MaxCalls
    /\ \E h \in HwSamples, io \in IoOutcomes :
        LET r == log_to_csv(PacketFrom(h), io)
        IN  /\ sensor_packet' = PacketFrom(h)
            /\ files' = r.files
            /\ sd_available' = r.sd_available
            /\ stdout' = r.stdout
            /\ log_result' = r.result
            /\ log_failed' = (log_failed \/ r.result \in {"error", "raised"})
            /\ api' = [fn |-> "log_to_csv", arg |-> <<io>>,
                       ret |-> NoneVal, raised |-> (r.result = "raised")]
    /\ trace' = Append(trace, "log_to_csv")
    /\ tick' = tick + 1
    /\ UNCHANGED <<pc, hw, sd_initialized, csv_filename, peers, rtc, mq_data,
                   uv_data, bme_data, dust_data, send_array, radio, hw_fault,
                   rx, gui, dashboard>>

NextLogger ==
    \/ CallInitSdCard
    \/ CallCreateNewCsv
    \/ CallLogToCsv

SpecLogger == InitLogger /\ [][NextLogger]_vars

(***************************************************************************)
(* reciever/main.py: what the receiver loop does with one message.         *)
(***************************************************************************)
\* convert_compact_to_full indexes compact[0] .. compact[22]: a list or a
\* str shorter than that raises IndexError, a dict has no key 0, any other
\* value cannot be subscripted.
ConvertFault(compact) ==
    IF compact.type \in {"array", "string"}
    THEN IF Len(compact.items) >= Len(DecoderFields) THEN "none" ELSE "IndexError"
    ELSE IF compact.type = "object" THEN "KeyError"
    ELSE "TypeError"

\* A handler that only expects a JSON syntax error.
RxCatchesValueErrorOnly(exception) == exception = "ValueError"

\* line 97: except Exception
RxCatches(exception) == TRUE

PacketLine(full_packet) == [kind |-> "packet", packet |-> full_packet]
ErrorLine(exception) == [kind |-> "error", packet |-> exception]

\* lines 88-98: the lines printed for msg, and whether an exception escapes
ReceiverBody(msg) ==
    IF ~Truthy(msg)
    THEN [ printed |-> <<>>, raised |-> FALSE ]
    ELSE LET dec == Decoded(msg)
             exception == IF dec.exception # "none" THEN dec.exception
                          ELSE ConvertFault(dec.value)
         IN  IF exception = "none"
             THEN [ printed |->
                        <<PacketLine(convert_compact_to_full(dec.value.items))>>,
                    raised |-> FALSE ]
             ELSE IF RxCatches(exception)
             THEN [ printed |-> <<ErrorLine(exception)>>, raised |-> FALSE ]
             ELSE [ printed |-> <<>>, raised |-> TRUE ]

(***************************************************************************)
(* The transport: lora.py called on its own by any caller, and the         *)
(* receiver node running its loop.  tick counts the lora.py calls.         *)
(***************************************************************************)
MaxMessages == 2
MaxLoraCalls == 2

sender_mac == <<36, 10, 196, 1, 2, 3>>
Macs == {receiver_mac, sender_mac}

\* The array main.py would send for one hardware sample.
ArrayFrom(h) ==
    SendArray(get_time(h.datetime), read_sensors(h.mq9, h.mq135),
              read_uv_sensor(h.uv), read_bme280(h.bme, <<23, 1>>),
              read_dust_sensor(h.dust))

SampleArray == ArrayFrom(CHOOSE h \in HwSamples : h.dust = 300)

JsonText(value) == encode([valid |-> TRUE, value |-> value])

\* What e.recv() can return as msg: nothing (timeout), b'', bytes that are
\* not UTF-8, text that is not JSON, and JSON texts of several shapes.
RxMessages ==
    { NoMsg,
      [kind |-> "empty", utf8 |-> TRUE, text |-> NoText],
      [kind |-> "bytes", utf8 |-> FALSE, text |-> NoText],
      [kind |-> "bytes", utf8 |-> TRUE, text |-> NoText],
      JsonPayload(SampleArray),
      JsonText(JsonValue("array", SubSeq(SampleArray, 1, 22))),
      JsonText(JsonValue("array", Append(SampleArray, 0))),
      JsonText(JsonValue("array", <<>>)),
      JsonText(JsonValue("string", <<"h", "i">>)),
      JsonText(JsonValue("string", [i \in 1..30 |-> "x"])),
      JsonText(JsonValue("object", <<>>)),
      JsonText(JsonValue("number", <<>>)) }

InitTransport == Fresh("transport")

sender_side == <<pc, hw, logger, rtc, mq_data, uv_data, bme_data, dust_data,
                 sensor_packet, trace, hw_fault, log_result, log_failed>>

\* _e.add_peer raises for an address that is already registered
CallAddPeer ==
    /\ pc = "transport"
    /\ tick < MaxLoraCalls
    /\ \E mac \in Macs :
       \E ok \in (IF mac \in Range(peers) THEN {FALSE} ELSE BOOLEAN) :
        LET r == add_peer(mac, ok)
        IN  /\ peers' = r.peers
            /\ stdout' = r.stdout
            /\ api' = [fn |-> "add_peer", arg |-> <<mac, ok>>,
                       ret |-> NoneVal, raised |-> FALSE]
    /\ tick' = tick + 1
    /\ UNCHANGED <<sender_side, send_array, radio, rx, gui, dashboard>>

CallSendPacket ==
    /\ pc = "transport"
    /\ tick < MaxLoraCalls
    /\ \E peer_mac \in Macs \cup {NoneVal},
          peers_method \in BOOLEAN, link_ok \in BOOLEAN :
        LET r == send_packet(SampleArray, peer_mac, peers_method, link_ok)
        IN  /\ send_array' = SampleArray
            /\ radio' = r.radio
            /\ stdout' = r.stdout
            /\ api' = [fn |-> "send_packet",
                       arg |-> <<peer_mac, peers_method, link_ok>>,
                       ret |-> NoneVal, raised |-> r.raised]
    /\ tick' = tick + 1
    /\ UNCHANGED <<sender_side, peers, rx, gui, dashboard>>

CallReceivePacket ==
    /\ pc = "transport"
    /\ tick < MaxLoraCalls
    /\ \E msg \in RxMessages :
        LET mac == IF msg = NoMsg THEN NoneVal ELSE sender_mac
            r == receive_packet(mac, msg)
        IN  /\ stdout' = r.stdout
            /\ api' = [fn |-> "receive_packet", arg |-> <<mac, msg>>,
                       ret |-> <<r.sender, r.packet>>, raised |-> FALSE]
    /\ tick' = tick + 1
    /\ UNCHANGED <<sender_side, peers, send_array, radio, rx, gui, dashboard>>

\* line 87: e.recv() returns what a sender addressed to this node, or what
\* any other station sent, or (None, None) after its timeout
RxRecv ==
    /\ rx.pc = "recv"
    /\ rx.count < MaxMessages
    /\ \/ /\ radio # <<>>
          /\ radio[1] = receiver_mac
          /\ rx' = [rx EXCEPT !.pc = "process", !.sender = sender_mac,
                              !.msg = radio[2], !.printed = <<>>,
                              !.count = @ + 1]
          /\ radio' = <<>>
       \/ /\ \E msg \in RxMessages :
               rx' = [rx EXCEPT !.pc = "process",
                                !.sender = IF msg = NoMsg THEN NoneVal
                                           ELSE sender_mac,
                                !.msg = msg, !.printed = <<>>,
                                !.count = @ + 1]
          /\ UNCHANGED radio
    /\ UNCHANGED <<sender_side, tick, peers, send_array, stdout, api, gui, dashboard>>

\* lines 88-98
RxProcess ==
    /\ rx.pc = "process"
    /\ LET r == ReceiverBody(rx.msg)
       IN  rx' = [rx EXCEPT !.pc = IF r.raised THEN "crashed" ELSE "sleep",
                            !.printed = r.printed,
                            !.errors = @ + Cardinality({i \in DOMAIN r.printed :
                                                r.printed[i].kind = "error"})]
    /\ UNCHANGED <<sender_side, tick, peers, send_array, radio, stdout, api,
                   gui, dashboard>>

\* line 99; sender, msg and what was printed are dead after the iteration
RxSleep ==
    /\ rx.pc = "sleep"
    /\ rx' = [RxIdle EXCEPT !.count = rx.count, !.errors = rx.errors]
    /\ UNCHANGED <<sender_side, tick, peers, send_array, radio, stdout, api,
                   gui, dashboard>>

NextTransport ==
    \/ CallAddPeer
    \/ CallSendPacket
    \/ CallReceivePacket
    \/ RxRecv
    \/ RxProcess
    \/ RxSleep

SpecTransport == InitTransport /\ [][NextTransport]_vars

(***************************************************************************)
(* mq.py: the two concentration functions called on their own, for every   *)
(* gas and for ratios 0.00, 0.01, ... up to MaxRatio hundredths.           *)
(***************************************************************************)
MaxRatio == 400
AdcMax == 4095

Mq9Gases == {"LPG", "CO", "CH4"}
Mq135Gases == {"CO2", "CO", "NH4", "Ethanol", "Toluene", "Acetone"}

all_but_api == <<pc, tick, hw, logger, peers, locals, radio, stdout, trace,
                 hw_fault, log_result, log_failed, rx, gui, dashboard>>

InitMq == Fresh("mq")

\* one call in each behaviour
CallConcentrationMq9 ==
    /\ pc = "mq"
    /\ api = NoCall
    /\ \E n \in 0..MaxRatio, gas \in Mq9Gases :
        api' = [fn |-> "calculate_concentration_mq9",
                arg |-> <<<<n, 100>>, gas>>,
                ret |-> calculate_concentration_mq9(<<n, 100>>, gas),
                raised |-> FALSE]
    /\ UNCHANGED all_but_api

CallConcentrationMq135 ==
    /\ pc = "mq"
    /\ api = NoCall
    /\ \E n \in 0..MaxRatio, gas \in Mq135Gases :
        api' = [fn |-> "calculate_concentration_mq135",
                arg |-> <<<<n, 100>>, gas>>,
                ret |-> calculate_concentration_mq135(<<n, 100>>, gas),
                raised |-> FALSE]
    /\ UNCHANGED all_but_api

\* What the other sensor reads while one sensor goes through every count.
OtherCounts == {0, 2048, AdcMax}

\* mq9_analog.read() and mq135_analog.read() give the two counts
CallReadSensors ==
    /\ pc = "mq"
    /\ api = NoCall
    /\ \E count \in 0..AdcMax, other \in OtherCounts, swap \in BOOLEAN :
        LET count9 == IF swap THEN other ELSE count
            count135 == IF swap THEN count ELSE other
        IN  api' = [fn |-> "read_sensors", arg |-> <<count9, count135>>,
                    ret |-> read_sensors(count9, count135), raised |-> FALSE]
    /\ UNCHANGED all_but_api

NextMq ==
    \/ CallConcentrationMq9
    \/ CallConcentrationMq135
    \/ CallReadSensors

SpecMq == InitMq /\ [][NextMq]_vars

(***************************************************************************)
(* dust_sensor.py: its three functions called on their own.  Densities are *)
(* 0.00, 0.01, ... up to MaxDensity hundredths of a ug/m3, AQI values are  *)
(* the integers up to MaxAqi either side of 0, ADC counts are 0 .. AdcMax. *)
(***************************************************************************)
MaxDensity == 52000
MaxAqi == 600

InitDust == Fresh("dust")

\* one call in each behaviour
CallCalculateAqi ==
    /\ pc = "dust"
    /\ api = NoCall
    /\ \E n \in 0..MaxDensity :
        api' = [fn |-> "calculate_aqi", arg |-> <<<<n, 100>>>>,
                ret |-> calculate_aqi(<<n, 100>>), raised |-> FALSE]
    /\ UNCHANGED all_but_api

CallGetHealthLevel ==
    /\ pc = "dust"
    /\ api = NoCall
    /\ \E aqi \in (-MaxAqi)..MaxAqi :
        api' = [fn |-> "get_health_level", arg |-> <<aqi>>,
                ret |-> get_health_level(aqi), raised |-> FALSE]
    /\ UNCHANGED all_but_api

\* measure_pin.read() gives vo_measured
CallReadDustSensor ==
    /\ pc = "dust"
    /\ api = NoCall
    /\ \E vo_measured \in 0..AdcMax :
        api' = [fn |-> "read_dust_sensor", arg |-> <<vo_measured>>,
                ret |-> read_dust_sensor(vo_measured), raised |-> FALSE]
    /\ UNCHANGED all_but_api

NextDust ==
    \/ CallCalculateAqi
    \/ CallGetHealthLevel
    \/ CallReadDustSensor

SpecDust == InitDust /\ [][NextDust]_vars

(***************************************************************************)
(* app_v2.py: the reader thread of the desktop application, its handlers   *)
(* and loop iterations taken one at a time.                                *)
(***************************************************************************)
MaxLines == 3

Sources == {"Simulated Sensors", "COM3", "COM4"}

\* lines 56-61
setSource(thread, source) ==
    [thread EXCEPT !.source = source,
                   !.serial_conn = IF source = "Simulated Sensors" THEN "None"
                                   ELSE @]

\* lines 63-78: int(baud_rate) can fail, serial.Serial(...) can fail
setSerialParams(thread, baud_ok, open_ok) ==
    IF ~baud_ok THEN thread
    ELSE [thread EXCEPT !.serial_conn = IF open_ok THEN "open" ELSE "None"]

\* The packet the receiver prints for the sample array, as one line of text.
PacketText == TextLine("{", TRUE, convert_compact_to_full(SampleArray))

\* What readline() can return: nothing within the timeout, a line end only,
\* the receiver's banner and error lines, a packet, a packet cut short, a
\* packet after blanks or after bytes that are not UTF-8, and a JSON array.
\* lead is what comes before the text: "", "blank" or "not utf-8".
SerialLines ==
    { [lead |-> "", text |-> NoLine],
      [lead |-> "blank", text |-> NoLine],
      [lead |-> "", text |-> TextLine("R", FALSE, <<>>)],
      [lead |-> "", text |-> TextLine("E", FALSE, <<>>)],
      [lead |-> "", text |-> PacketText],
      [lead |-> "", text |-> TextLine("{", FALSE, <<>>)],
      [lead |-> "blank", text |-> PacketText],
      [lead |-> "not utf-8", text |-> PacketText],
      [lead |-> "", text |-> TextLine("[", TRUE, <<1, 2>>)] }

\* .decode('utf-8', errors='ignore').strip(): the bytes that are not UTF-8
\* and the blanks around the text are dropped
DecodeStrip(raw) == raw.text

\* A handler for port errors only.
GuiCatchesSerialErrorOnly(exception) == exception = "SerialException"

\* line 95: except Exception
GuiCatches(exception) == TRUE

\* lines 86-96: one pass with an open port; raw is the line read, or
\* readline() raises when read_ok is false
ReadSerial(thread, read_ok, raw) ==
    LET line == DecodeStrip(raw)
        exception == IF ~read_ok THEN "SerialException"
                     ELSE IF line.first = "{" /\ ~line.parses THEN "ValueError"
                     ELSE "none"
    IN  IF exception = "none"
        THEN [thread EXCEPT !.read = "line", !.line = line,
                            !.emitted = IF line.first = "{" THEN <<line.value>>
                                        ELSE <<>>]
        ELSE IF GuiCatches(exception)
        THEN [thread EXCEPT !.read = IF read_ok THEN "line" ELSE "error",
                            !.line = IF read_ok THEN line ELSE NoLine,
                            !.emitted = <<>>]
        ELSE [thread EXCEPT !.state = "dead",
                            !.read = IF read_ok THEN "line" ELSE "error",
                            !.line = IF read_ok THEN line ELSE NoLine,
                            !.emitted = <<>>]

all_but_gui == <<pc, tick, hw, logger, peers, locals, radio, stdout, trace,
                 hw_fault, log_result, log_failed, api, rx, dashboard>>

InitGui == Fresh("gui")

\* SensorDashboard.__init__, lines 632-636
GuiStart ==
    /\ pc = "gui"
    /\ gui.state = "created"
    /\ gui' = [setSource(gui, "Simulated Sensors") EXCEPT !.state = "running"]
    /\ UNCHANGED all_but_gui

\* onConnectClicked, lines 638-653
GuiConnect ==
    /\ pc = "gui"
    /\ gui.state # "created"
    /\ \E new_source \in Sources, baud_ok \in BOOLEAN, open_ok \in BOOLEAN :
        gui' = IF new_source = "Simulated Sensors"
               THEN setSource(gui, new_source)
               ELSE setSerialParams(setSource(gui, new_source), baud_ok, open_ok)
    /\ UNCHANGED all_but_gui

\* run(), lines 81-97: one iteration of the loop, its msleep included
RunIteration ==
    /\ pc = "gui"
    /\ gui.state = "running"
    /\ gui.count < MaxLines
    /\ LET thread == [gui EXCEPT !.count = @ + 1]
       IN  IF gui.source = "Simulated Sensors"
           THEN gui' = [thread EXCEPT !.read = "simulated", !.line = NoLine,
                                      !.emitted = <<"simulated packet">>]
           ELSE IF gui.serial_conn = "open"
           THEN \E read_ok \in BOOLEAN, raw \in SerialLines :
                    gui' = ReadSerial(thread, read_ok, raw)
           ELSE gui' = [thread EXCEPT !.read = "none", !.line = NoLine,
                                      !.emitted = <<>>]
    /\ UNCHANGED all_but_gui

NextGui ==
    \/ GuiStart
    \/ GuiConnect
    \/ RunIteration

SpecGui == InitGui /\ [][NextGui]_vars

(***************************************************************************)
(* app_v2.py: the reader thread and the GUI thread, statement by           *)
(* statement.  The GUI thread runs onConnectClicked (setSource, then       *)
(* setSerialParams for a port) while run() loops; each attribute read or   *)
(* write of self.source and self.serial_conn is one step.                  *)
(***************************************************************************)
MaxPasses == 2

InitThreads == Fresh("threads")

\* lines 632-636: the thread is created, set to simulated and started
ThreadsStart ==
    /\ pc = "threads"
    /\ gui.state = "created"
    /\ gui' = [gui EXCEPT !.state = "running", !.source = "Simulated Sensors"]
    /\ UNCHANGED all_but_gui

\* lines 638-651 and 57: the click stores the new source
OnConnectClicked ==
    /\ pc = "threads"
    /\ gui.state # "created"
    /\ gui.ui = "idle"
    /\ \E new_source \in Sources :
        gui' = [gui EXCEPT !.source = new_source,
                           !.ui = IF new_source = "Simulated Sensors"
                                  THEN "setSource:if" ELSE "setSerialParams:int"]
    /\ UNCHANGED all_but_gui

\* line 59: ... and self.serial_conn
SetSourceIf ==
    /\ pc = "threads"
    /\ gui.ui = "setSource:if"
    /\ gui' = [gui EXCEPT !.ui = IF gui.serial_conn # "None"
                                 THEN "setSource:close" ELSE "idle"]
    /\ UNCHANGED all_but_gui

\* lines 64-69 and 70: int(baud_rate), then "if self.serial_conn"
SetSerialParamsInt ==
    /\ pc = "threads"
    /\ gui.ui = "setSerialParams:int"
    /\ \E baud_ok \in BOOLEAN :
        gui' = [gui EXCEPT !.ui = IF ~baud_ok THEN "idle"
                                  ELSE IF gui.serial_conn # "None"
                                  THEN "setSerialParams:close"
                                  ELSE "setSerialParams:Serial"]
    /\ UNCHANGED all_but_gui

\* lines 60 and 71: self.serial_conn.close()
ConnClose ==
    /\ pc = "threads"
    /\ gui.ui \in {"setSource:close", "setSerialParams:close"}
    /\ gui' = [gui EXCEPT !.serial_conn = "closed",
                          !.ui = IF gui.ui = "setSource:close"
                                 THEN "setSource:None" ELSE "setSerialParams:None"]
    /\ UNCHANGED all_but_gui

\* lines 61 and 72: self.serial_conn = None
ConnNone ==
    /\ pc = "threads"
    /\ gui.ui \in {"setSource:None", "setSerialParams:None"}
    /\ gui' = [gui EXCEPT !.serial_conn = "None",
                          !.ui = IF gui.ui = "setSource:None"
                                 THEN "idle" ELSE "setSerialParams:Serial"]
    /\ UNCHANGED all_but_gui

\* lines 73-78: serial.Serial(...) gives a port or raises
SetSerialParamsSerial ==
    /\ pc = "threads"
    /\ gui.ui = "setSerialParams:Serial"
    /\ \E open_ok \in BOOLEAN :
        gui' = [gui EXCEPT !.serial_conn = IF open_ok THEN "open" ELSE "None",
                           !.ui = "idle"]
    /\ UNCHANGED all_but_gui

\* lines 81-84: while True, the test of self.source and the simulated branch
RunWhile ==
    /\ pc = "threads"
    /\ gui.state = "running"
    /\ gui.at = "while"
    /\ gui.count < MaxPasses
    /\ gui' = IF gui.source = "Simulated Sensors"
              THEN [gui EXCEPT !.read = "simulated", !.line = NoLine,
                               !.emitted = <<"simulated packet">>,
                               !.at = "msleep"]
              ELSE [gui EXCEPT !.read = "none", !.line = NoLine,
                               !.emitted = <<>>, !.at = "if serial_conn"]
    /\ UNCHANGED all_but_gui

\* line 86, left operand: self.serial_conn is loaded and tested for truth
RunIfSerialConn ==
    /\ pc = "threads"
    /\ gui.state = "running"
    /\ gui.at = "if serial_conn"
    /\ gui' = [gui EXCEPT !.at = IF gui.serial_conn = "None" THEN "msleep"
                                 ELSE "serial_conn.is_open"]
    /\ UNCHANGED all_but_gui

\* line 86, right operand: self.serial_conn is loaded again and its is_open
\* read, outside the try; None has no is_open
RunIsOpen ==
    /\ pc = "threads"
    /\ gui.state = "running"
    /\ gui.at = "serial_conn.is_open"
    /\ gui' = IF gui.serial_conn = "None"
              THEN [gui EXCEPT !.state = "dead", !.read = "AttributeError"]
              ELSE [gui EXCEPT !.at = IF gui.serial_conn = "open"
                                     THEN "readline" ELSE "msleep"]
    /\ UNCHANGED all_but_gui

\* lines 87-96: self.serial_conn is loaded a third time, inside the try;
\* readline() of a closed port raises
RunReadline ==
    /\ pc = "threads"
    /\ gui.state = "running"
    /\ gui.at = "readline"
    /\ LET thread == [gui EXCEPT !.at = "msleep"]
       IN  IF gui.serial_conn = "None"
           THEN gui' = [thread EXCEPT !.read = "AttributeError",
                                      !.state = IF GuiCatches("AttributeError")
                                                THEN @ ELSE "dead"]
           ELSE IF gui.serial_conn = "closed"
           THEN gui' = ReadSerial(thread, FALSE, [lead |-> "", text |-> NoLine])
           ELSE \E read_ok \in BOOLEAN, raw \in SerialLines :
                    gui' = ReadSerial(thread, read_ok, raw)
    /\ UNCHANGED all_but_gui

\* line 97
RunMsleep ==
    /\ pc = "threads"
    /\ gui.state = "running"
    /\ gui.at = "msleep"
    /\ gui' = [gui EXCEPT !.at = "while", !.count = @ + 1]
    /\ UNCHANGED all_but_gui

NextThreads ==
    \/ ThreadsStart
    \/ OnConnectClicked
    \/ SetSourceIf
    \/ SetSerialParamsInt
    \/ ConnClose
    \/ ConnNone
    \/ SetSerialParamsSerial
    \/ RunWhile
    \/ RunIfSerialConn
    \/ RunIsOpen
    \/ RunReadline
    \/ RunMsleep

SpecThreads == InitThreads /\ [][NextThreads]_vars

(***************************************************************************)
(* app_v2.py: the main window's warning check.  updateData runs in the GUI  *)
(* thread for every packet of data_signal; QMessageBox.warning runs an     *)
(* event loop of its own until the user closes the box, and packets that   *)
(* arrive meanwhile are handed to updateData from inside that loop.        *)
(***************************************************************************)
MaxPackets == 3

\* The limits typed into the table, and the values that packets carry.
LowerLimit == 0
UpperLimit == 50
Values == {10, 90}

\* applySettings, lines 446-456: one item per row of the table
Settings(enabled) ==
    [row \in DOMAIN warning_sensors |->
        <<warning_sensors[row],
          [enabled |-> enabled[row], lower |-> LowerLimit, upper |-> UpperLimit]>>]

\* The check boxes the user leaves ticked when pressing Apply.
EnabledChoices == {<<TRUE, TRUE>>, <<TRUE, FALSE>>, <<FALSE, TRUE>>}

\* Packets: each gas of the mq9 group with a value, and a packet that has
\* no CO entry.
DashboardPackets ==
    { [mq9 |-> [LPG |-> [value |-> lpg], CO |-> [value |-> co]]] :
          lpg \in Values, co \in Values }
    \cup { [mq9 |-> [LPG |-> [value |-> 90]]] }

\* lines 660-693 from the i-th item of warning_settings on, up to the
\* message box of the first warning raised (box is that item's number) or
\* to the end of the loop (box is 0)
RECURSIVE updateData(_, _, _, _, _)
updateData(sensor_data, warning_settings, i, warning_state, log) ==
    IF i > Len(warning_settings)
    THEN [warning_state |-> warning_state, log |-> log, box |-> 0]
    ELSE
    LET sensor == warning_settings[i][1]
        settings == warning_settings[i][2]
        Continue(state) == updateData(sensor_data, warning_settings, i + 1, state, log)
    IN  IF ~settings.enabled
        THEN Continue([warning_state EXCEPT ![sensor] = FALSE])
        ELSE IF sensor \notin DOMAIN warning_sensor_mapping
        THEN Continue(warning_state)
        ELSE
        LET group == warning_sensor_mapping[sensor][1]
            key == warning_sensor_mapping[sensor][2]
        IN  IF group \notin DOMAIN sensor_data \/ key \notin DOMAIN sensor_data[group]
            THEN Continue(warning_state)
            ELSE
            LET numeric_value == sensor_data[group][key].value
            IN  IF numeric_value < settings.lower \/ numeric_value > settings.upper
                THEN IF ~warning_state[sensor]
                     THEN [ warning_state |-> [warning_state EXCEPT ![sensor] = TRUE],
                            log |-> Append(log, [sensor |-> sensor,
                                                 value |-> numeric_value]),
                            box |-> i ]
                     ELSE Continue(warning_state)
                ELSE Continue([warning_state EXCEPT ![sensor] = FALSE])

all_but_dashboard == <<pc, tick, hw, logger, peers, locals, radio, stdout,
                       trace, hw_fault, log_result, log_failed, api, rx, gui>>

InitDashboard == Fresh("dashboard")

\* The result r of running a call of updateData on sensor_data, put back
\* into the window: the call stays on the stack while its box is open.
AfterCall(window, outer_calls, sensor_data, warning_settings, r) ==
    [window EXCEPT
        !.warning_state = r.warning_state,
        !.log = r.log,
        !.calls = IF r.box = 0 THEN outer_calls
                  ELSE Append(outer_calls,
                              [sensor_data |-> sensor_data,
                               warning_settings |-> warning_settings,
                               box |-> r.box])]

\* The Apply button, lines 446-464; the button cannot be pressed while a
\* warning box is open
ApplySettings ==
    /\ pc = "dashboard"
    /\ dashboard.calls = <<>>
    /\ \E enabled \in EnabledChoices :
        dashboard' = [dashboard EXCEPT !.warning_settings = Settings(enabled)]
    /\ UNCHANGED all_but_dashboard

\* data_signal delivers a packet: updateData is called, from the window's
\* event loop or from the loop of the innermost open warning box
DeliverPacket ==
    /\ pc = "dashboard"
    /\ Len(dashboard.delivered) < MaxPackets
    /\ \E sensor_data \in DashboardPackets :
        LET warning_settings == dashboard.warning_settings
            r == updateData(sensor_data, warning_settings, 1,
                            dashboard.warning_state, dashboard.log)
            window == [dashboard EXCEPT
                          !.delivered = Append(@, [sensor_data |-> sensor_data,
                                                   warning_settings |-> warning_settings])]
        IN  dashboard' = AfterCall(window, dashboard.calls, sensor_data,
                                   warning_settings, r)
    /\ UNCHANGED all_but_dashboard

\* The user closes the innermost warning box: QMessageBox.warning returns
\* and the call that opened it goes on with lines 687-688 and the next item
CloseWarningBox ==
    /\ pc = "dashboard"
    /\ dashboard.calls # <<>>
    /\ LET call == dashboard.calls[Len(dashboard.calls)]
           outer_calls == SubSeq(dashboard.calls, 1, Len(dashboard.calls) - 1)
           r == updateData(call.sensor_data, call.warning_settings, call.box + 1,
                           dashboard.warning_state, dashboard.log)
       IN  dashboard' = AfterCall(dashboard, outer_calls, call.sensor_data,
                                  call.warning_settings, r)
    /\ UNCHANGED all_but_dashboard

NextDashboard ==
    \/ ApplySettings
    \/ DeliverPacket
    \/ CloseWarningBox

SpecDashboard == InitDashboard /\ [][NextDashboard]_vars

(***************************************************************************)
(* uv.py: read_uv_sensor called on its own.  The eight samples are some at *)
(* one count and the rest at the next count, which gives every sum that    *)
(* eight 12-bit samples can have.                                          *)
(***************************************************************************)
InitUv == Fresh("uv")

UvSamples(count, k) ==
    [i \in 1..number_of_readings |-> IF i <= k THEN count + 1 ELSE count]

\* one call in each behaviour
CallReadUvSensor ==
    /\ pc = "uv"
    /\ api = NoCall
    /\ \E count \in 0..AdcMax, k \in 0..(number_of_readings - 1) :
        /\ (k > 0 => count < AdcMax)
        /\ api' = [fn |-> "read_uv_sensor", arg |-> UvSamples(count, k),
                   ret |-> read_uv_sensor(UvSamples(count, k)),
                   raised |-> FALSE]
    /\ UNCHANGED all_but_api

NextUv == CallReadUvSensor

SpecUv == InitUv /\ [][NextUv]_vars

(***************************************************************************)
(* Properties of the wire format.                                          *)
(***************************************************************************)
\* The steps of the current tick up to and including the named one are done.
Done(step) == step \in Range(trace)

\* The value a canonical packet holds for the field f of DecoderFields.
FieldValue(p, f) == IF f[1] = "rtc" THEN p[f[1]][f[2]] ELSE p[f[1]][f[2]].value

\* C1: in every tick, decoding the tick's compact array with
\* convert_compact_to_full gives a packet equal to the sensor_packet
\* assembled in that tick, values and unit strings alike.
C1_RoundTrip ==
    Done("send_array") => convert_compact_to_full(send_array) = sensor_packet

\* A tick whose array has been built and decodes to LPG 200 ppm and to the
\* dust label of a 4.0 V reading.
C1_Witness ==
    /\ Done("send_array")
    /\ convert_compact_to_full(send_array)["mq9"]["LPG"] = Reading(200, "ppm")
    /\ sensor_packet.dust_sensor.health_level.value = "Hazardous"
    /\ sensor_packet.uv_sensor.uv_intensity.value > 0

\* The group the wire contract gives to index i of the compact array.
WireGroup(i) ==
    IF i <= 1 THEN "rtc"
    ELSE IF i <= 4 THEN "mq9"
    ELSE IF i <= 10 THEN "mq135"
    ELSE IF i <= 14 THEN "uv_sensor"
    ELSE IF i <= 17 THEN "bme280"
    ELSE "dust_sensor"

\* C2: every compact array handed to send_packet has exactly 23 fields, and
\* at every index 0..22 the sender has put the value of the field that the
\* receiver reads from that index, the indices being grouped as 0..1 rtc,
\* 2..10 gas, 11..14 UV, 15..17 BME280, 18..22 dust.
C2_WireContract ==
    Done("send_array") =>
        /\ Len(send_array) = 23
        /\ Len(DecoderFields) = 23
        /\ \A i \in 0..22 :
            /\ DecoderFields[i + 1][1] = WireGroup(i)
            /\ send_array[i + 1] = FieldValue(sensor_packet, DecoderFields[i + 1])

\* An array about to be sent whose NH4 and alcohol entries differ.
C2_Witness ==
    /\ pc = "send_packet"
    /\ Len(send_array) = 23
    /\ send_array[8] # send_array[9]
    /\ send_array[3] # send_array[4]

(***************************************************************************)
(* Properties of the acquisition loop.                                     *)
(***************************************************************************)
\* C3: no fault is fatal to the acquisition loop: whatever fault occurs in
\* a tick, main()'s loop does not terminate and goes on to the next tick.
C3_NoFaultFatal == pc # "crashed"

Groups == {"rtc", "mq9", "mq135", "uv_sensor", "bme280", "dust_sensor"}

\* C4: when a sensor reader's hardware read fails during a tick, the reader
\* returns instead of failing, and the packet assembled in that tick
\* contains all six groups with numeric values defaulted to 0.
C4_ReadFaultDefaults ==
    hw_fault # "none" =>
        /\ pc # "crashed"
        /\ Done("assemble") =>
            /\ DOMAIN sensor_packet = Groups
            /\ hw_fault = "read_bme280" =>
                sensor_packet.bme280.temperature.value = 0

\* The order of the steps of one tick.
TickOrder ==
    << "get_time", "read_sensors", "read_uv_sensor", "read_bme280",
       "read_dust_sensor", "assemble", "print", "log_to_csv", "send_array",
       "send_packet" >>

LastLine(name) == files[name][Len(files[name])]

\* C5: within every tick the steps happen in the order read, assemble,
\* print, log, build the compact array, send; the log append of a tick
\* happens before its send, so a failed send never prevents the tick's
\* packet from being logged.
C5_LogBeforeSend ==
    /\ IsPrefix(trace, TickOrder)
    /\ pc = "send_packet" => Done("log_to_csv")
    /\ (Done("send_packet") /\ log_result = "written") =>
            LastLine(csv_filename) = RowLine(sensor_packet)

\* A tick whose send failed and whose packet is the last line of the log.
C5_Witness ==
    /\ tick = 2
    /\ pc = "sleep"
    /\ stdout = "Error sending packet"
    /\ log_result = "written"
    /\ LastLine(csv_filename) = RowLine(sensor_packet)

(***************************************************************************)
(* Properties of the SD-card logger.                                       *)
(***************************************************************************)
\* The startup init_sd_card call has been made and has failed.
InitFailed == pc # "init_sd_card" /\ ~sd_initialized

\* C6: if init_sd_card fails, sd_available is False and every later
\* create_new_csv and log_to_csv call is a no-op: it writes nothing, changes
\* no logger state and returns without raising.
C6_FailedInitNoOps ==
    /\ [](InitFailed => ~sd_available)
    /\ [][ (InitFailed /\ pc \in {"create_new_csv", "log_to_csv"}) =>
              /\ UNCHANGED logger
              /\ pc' # "crashed"
              /\ pc = "log_to_csv" => log_result' = "skipped" ]_vars

\* The second tick of a run whose init failed: the log call was skipped and
\* the card holds no file.
C6_Witness ==
    /\ InitFailed
    /\ tick = 2
    /\ Done("log_to_csv")
    /\ log_result = "skipped"
    /\ DOMAIN files = {}
    /\ csv_filename = NoneVal

\* C7: after a write failure inside log_to_csv the logger is
\* Unavailable for the remainder of the run, every later log_to_csv call
\* skips the write attempt.
C7_DegradesAfterWriteFailure ==
    [][ (log_failed /\ pc = "log_to_csv") =>
            (~sd_available /\ log_result' = "skipped") ]_vars

\* C8: log_to_csv never propagates an exception to its caller, whatever
\* the state of the logger and whatever the medium does.
C8_LogNeverRaises ==
    /\ log_result # "raised"
    /\ Done("log_to_csv") => pc # "crashed"

\* A log call on an available logger whose write failed, and main() going on.
C8_Witness ==
    /\ sd_available
    /\ log_result = "error"
    /\ stdout = "Error logging to CSV"
    /\ pc = "send_array"

\* C9: while storage is available the log file is the header row, written
\* once as its first line, followed by one data row per completed tick; no
\* data row is ever in a file that does not start with the header.
C9_HeaderThenRows ==
    /\ \A n \in DOMAIN files :
        files[n] # <<>> =>
            /\ files[n][1] = HeaderLine
            /\ \A i \in 2..Len(files[n]) : files[n][i].kind = "row"
    /\ (sd_available /\ ~log_failed /\ pc = "sleep" /\ csv_filename \in DOMAIN files) =>
            Len(files[csv_filename]) = 1 + tick

\* C10: every data row written by log_to_csv has as many comma-separated
\* fields as the header row, in the order of the compact record, from the
\* date and time to the dust health level.
C10_RowMatchesHeader ==
    \A n \in DOMAIN files : \A i \in DOMAIN files[n] :
        files[n][i].kind = "row" =>
            /\ Len(files[n][i].fields) = Len(Header)
            /\ (Done("send_array") /\ log_result = "written" /\ n = csv_filename
                    /\ i = Len(files[n])) =>
                  files[n][i].fields = send_array

\* C11: the log file name is chosen once, at session start, and never
\* changes afterwards: only the startup create_new_csv step assigns
\* csv_filename, the log_to_csv step leaves it unchanged, and a log_to_csv
\* step creates or changes no file other than the one csv_filename names.
C11_FileNameFixed ==
    [][ /\ (pc # "create_new_csv" => csv_filename' = csv_filename)
        /\ (pc = "log_to_csv" =>
               \A n \in DOMAIN files' :
                   n # csv_filename => (n \in DOMAIN files /\ files'[n] = files[n])) ]_vars

\* The second tick's row has been appended to the file of the first tick's row.
C11_Witness ==
    /\ tick = 2
    /\ Done("log_to_csv")
    /\ log_result = "written"
    /\ csv_filename \in DOMAIN files
    /\ Len(files[csv_filename]) = 3
    /\ files[csv_filename][1] = HeaderLine
    /\ DOMAIN files = {csv_filename}

\* C12: a failed init_sd_card is not sticky: a later init_sd_card call whose
\* mount succeeds leaves the logger available (sd_available True,
\* sd_initialized True).
C12_InitRetryRecovers ==
    [][ ( /\ "init_sd_card:failed" \in Range(trace)
          /\ tick' = tick + 1
          /\ api'.fn = "init_sd_card"
          /\ api'.arg = <<TRUE>> )
        => (sd_available' /\ sd_initialized') ]_vars

\* A retry has succeeded after a failure and a row has been written since.
C12_Witness ==
    /\ Len(trace) = 4
    /\ trace[1] = "init_sd_card:failed"
    /\ trace[2] = "init_sd_card:ok"
    /\ trace[4] = "log_to_csv"
    /\ sd_available
    /\ log_result = "written"

(***************************************************************************)
(* Properties of the transport and of the receiver.                        *)
(***************************************************************************)
\* C13: send_packet never raises on a transport fault: called without a peer
\* argument it sends to the first registered peer, without a peer argument
\* and with no registered peer it sends nothing and returns normally, and an
\* error of the underlying send is caught, the call returning normally.
C13_SendNeverRaises ==
    [][ (tick' = tick + 1 /\ api'.fn = "send_packet") =>
          /\ ~api'.raised
          /\ (api'.arg[1] = NoneVal /\ peers = <<>>) =>
                 (radio' = radio /\ stdout' = "No peers available to send!")
          /\ (api'.arg[1] = NoneVal /\ peers # <<>> /\ api'.arg[3]) =>
                 radio' = <<peers[1], JsonPayload(send_array')>>
          /\ ~api'.arg[3] => (radio' = radio /\ stdout' # "Sent packet to") ]_vars

\* The payload is there and msg.decode() or json.loads rejects it.
Undecodable(msg) == Truthy(msg) /\ Decoded(msg).exception # "none"

PrintsPacket == \E i \in DOMAIN rx.printed : rx.printed[i].kind = "packet"

\* C14: on a received message whose payload cannot be decoded no exception
\* escapes: receive_packet returns the sender address with no record, the
\* receiver loop prints no packet for the message and reaches its sleep, from
\* where it goes on to the next e.recv().
C14_UndecodableDropped ==
    /\ rx.pc \in {"recv", "process", "sleep"}
    /\ (rx.pc = "sleep" /\ Undecodable(rx.msg)) => ~PrintsPacket
    /\ (api.fn = "receive_packet" /\ Undecodable(api.arg[2])) =>
           (~api.raised /\ api.ret = <<api.arg[1], NoText.value>>)

\* After a message that was not UTF-8 the receiver has printed the packet of
\* the next message, and receive_packet has returned (sender, None).
C14_Witness ==
    /\ rx.errors = 1
    /\ rx.count = 2
    /\ rx.pc = "sleep"
    /\ PrintsPacket
    /\ api.fn = "receive_packet"
    /\ ~api.arg[2].utf8
    /\ Truthy(api.arg[2])
    /\ api.ret = <<sender_mac, NoText.value>>

\* C15: the receiver prints a canonical packet only for a payload that is a
\* JSON array of exactly 23 elements; every other decoded payload (a shorter
\* or longer array, a string, an object) is dropped without a packet.
C15_OnlyWireArrays ==
    (rx.pc = "sleep" /\ PrintsPacket) =>
        /\ Decoded(rx.msg).exception = "none"
        /\ Decoded(rx.msg).value.type = "array"
        /\ Len(Decoded(rx.msg).value.items) = Len(DecoderFields)

(***************************************************************************)
(* Properties of the gas concentration tables.                             *)
(***************************************************************************)
\* The step tables as data: thresholds in tenths, highest first, each with
\* the value of the band above it, and the value below the last threshold.
Mq9Table ==
    [ LPG |-> [steps |-> <<<<18, 200>>, <<10, 1000>>, <<6, 5000>>>>, floor |-> 10000],
      CO  |-> [steps |-> <<<<22, 100>>, <<12, 200>>, <<8, 400>>>>, floor |-> 1000],
      CH4 |-> [steps |-> <<<<17, 200>>, <<10, 500>>, <<7, 1000>>>>, floor |-> 5000] ]

Mq135Table ==
    [ CO2 |-> [steps |-> <<<<35, 10>>, <<25, 20>>, <<15, 100>>, <<10, 200>>>>, floor |-> 500],
      CO  |-> [steps |-> <<<<25, 10>>, <<18, 20>>, <<12, 100>>, <<8, 200>>>>, floor |-> 500],
      NH4 |-> [steps |-> <<<<22, 10>>, <<15, 50>>, <<10, 100>>>>, floor |-> 200],
      Ethanol |-> [steps |-> <<<<20, 10>>, <<15, 50>>, <<10, 100>>>>, floor |-> 300],
      Toluene |-> [steps |-> <<<<18, 10>>, <<12, 50>>, <<9, 100>>>>, floor |-> 200],
      Acetone |-> [steps |-> <<<<15, 10>>, <<10, 50>>, <<7, 100>>>>, floor |-> 300] ]

\* The value of the band that holds the ratio; a ratio equal to a threshold
\* is in the band above it when the bands are closed below, in the band
\* under it otherwise.
StepValue(table, ratio, closed_below) ==
    LET InBandAbove(t) == IF closed_below THEN 10 * ratio[1] >= t * ratio[2]
                          ELSE 10 * ratio[1] > t * ratio[2]
        hits == {i \in DOMAIN table.steps : InBandAbove(table.steps[i][1])}
    IN  IF hits = {} THEN table.floor
        ELSE table.steps[CHOOSE i \in hits : \A j \in hits : i <= j][2]

TableOf(fn) == IF fn = "calculate_concentration_mq9" THEN Mq9Table ELSE Mq135Table

ConcentrationCall ==
    api.fn \in {"calculate_concentration_mq9", "calculate_concentration_mq135"}

\* C16 as stated: for every gas of both sensors and every ratio the function
\* returns the step value of the band that holds the ratio, a ratio equal to
\* a threshold belonging to the higher band (the one above the threshold).
C16_ThresholdInHigherBand ==
    ConcentrationCall =>
        api.ret = StepValue(TableOf(api.fn)[api.arg[2]], api.arg[1], TRUE)

\* C16 amended: for every gas of both sensors and every ratio the function
\* returns the step value of the band that holds the ratio, a ratio equal to
\* a threshold belonging to the band below the threshold (the thresholds are
\* exclusive lower bounds).
C16_ThresholdInLowerBand ==
    ConcentrationCall =>
        api.ret = StepValue(TableOf(api.fn)[api.arg[2]], api.arg[1], FALSE)

\* LPG at a ratio of exactly 1.8 gives 1000, the value of the band 1.0 to 1.8.
C16_Witness ==
    /\ api.fn = "calculate_concentration_mq9"
    /\ api.arg = <<<<180, 100>>, "LPG">>
    /\ api.ret = 1000

(***************************************************************************)
(* Properties of the dust sensor's functions.                              *)
(***************************************************************************)
\* C17: calculate_aqi is non-decreasing in the dust density over all
\* densities >= 0, the gaps between the band bounds included (each density
\* of the grid gives at most the index of the next one), with
\* calculate_aqi(0) = 0, calculate_aqi(12) within 0..50,
\* calculate_aqi(500.4) = 500 and calculate_aqi(d) = 500 for d > 500.4.
C17_AqiMonotonic ==
    api.fn = "calculate_aqi" =>
        LET n == api.arg[1][1]
        IN  /\ api.ret <= calculate_aqi(<<n + 1, 100>>)
            /\ api.ret >= 0
            /\ (n = 0) => api.ret = 0
            /\ (n = 1200) => api.ret \in 0..50
            /\ (n = 50040) => api.ret = 500
            /\ (n > 50040) => api.ret = 500

\* A density in the gap between 12 and 12.1 has the index of 12.
C17_Witness ==
    /\ api.fn = "calculate_aqi"
    /\ api.arg = <<<<1205, 100>>>>
    /\ api.ret = 50
    /\ calculate_aqi(<<1200, 100>>) = 50
    /\ calculate_aqi(<<1210, 100>>) = 51

\* The thresholds and their labels, as the claim lists them.
HealthThresholds ==
    << <<50, "Good">>, <<100, "Moderate">>,
       <<150, "Unhealthy for Sensitive Groups">>, <<200, "Unhealthy">>,
       <<300, "Very Unhealthy">>, <<500, "Hazardous">> >>

LabelFor(aqi) ==
    LET fits == {i \in DOMAIN HealthThresholds : aqi <= HealthThresholds[i][1]}
    IN  IF fits = {} THEN "Beyond AQI Scale"
        ELSE HealthThresholds[CHOOSE i \in fits : \A j \in fits : i <= j][2]

\* C18: for every integer AQI get_health_level returns the label fixed by
\* the thresholds 50, 100, 150, 200, 300, 500: Good up to 50, Moderate for
\* 51..100, Unhealthy for Sensitive Groups for 101..150, Unhealthy for
\* 151..200, Very Unhealthy for 201..300, Hazardous for 301..500 and
\* "Beyond AQI Scale" above 500.
C18_HealthLabels ==
    api.fn = "get_health_level" => api.ret = LabelFor(api.arg[1])

\* The label of the outer band.
C18_Witness ==
    /\ api.fn = "get_health_level"
    /\ api.arg = <<501>>
    /\ api.ret = "Beyond AQI Scale"

\* 170 * (count / 4095 * 5) - 0.1 > 500.4
DensityBeyondScale(count) == 8500 * count > 5005 * AdcMax

\* C19: for every raw dust ADC count whose density max(170 x voltage - 0.1, 0)
\* exceeds 500.4, read_dust_sensor reports AQI 500 and the health level
\* "Hazardous".
C19_BeyondScaleIsHazardous ==
    (api.fn = "read_dust_sensor" /\ DensityBeyondScale(api.arg[1])) =>
        (api.ret.AQI = 500 /\ api.ret.Health_Level = "Hazardous")

\* The reading at 4.0 V: density 679.9.
C19_Witness ==
    /\ api.fn = "read_dust_sensor"
    /\ api.arg = <<3276>>
    /\ api.ret.Voltage[1] = 4 * api.ret.Voltage[2]
    /\ 10 * api.ret.Dust_Density[1] = 6799 * api.ret.Dust_Density[2]
    /\ api.ret.AQI = 500
    /\ api.ret.Health_Level = "Hazardous"

(***************************************************************************)
(* Properties of the desktop reader thread.                                *)
(***************************************************************************)
\* C20: reading from the serial port, the thread emits a packet only for a
\* line that starts with '{' and parses as JSON, and then emits what the line
\* parses to; any other line (empty, banner, malformed JSON) gives no
\* emission, and no line stops the loop.
C20_EmitsOnlyJsonObjects ==
    /\ gui.state # "dead"
    /\ gui.read \in {"line", "error", "none"} =>
           /\ (gui.emitted # <<>>) <=>
                  (gui.read = "line" /\ gui.line.first = "{" /\ gui.line.parses)
           /\ (gui.emitted # <<>>) => gui.emitted = <<gui.line.value>>

\* The loop is still running after a line that started with '{' and did not
\* parse: it has made its third pass and emitted nothing for that line.
C20_Witness ==
    /\ gui.state = "running"
    /\ gui.count = 3
    /\ gui.read = "line"
    /\ gui.line = TextLine("{", FALSE, <<>>)
    /\ gui.emitted = <<>>

(***************************************************************************)
(* Properties of read_sensors.                                             *)
(***************************************************************************)
\* A rational in lowest terms.
Lowest(r) == LET g == GCD(Abs(r[1]), r[2]) IN <<r[1] \div g, r[2] \div g>>

SameNumber(a, b) == Lowest(a) = Lowest(b)

\* (3.3 - voltage) / voltage when voltage > 0, else 0, from the voltage that
\* read_sensors returned, and that divided by R0
RsOf(voltage) ==
    IF voltage[1] > 0 THEN <<33 * voltage[2] - 10 * voltage[1], 10 * voltage[1]>>
    ELSE <<0, 1>>

Over(rs, R0) == <<rs[1] * R0[2], rs[2] * R0[1]>>

\* voltage = count / 4095 x 3.3, and the ratio is Rs / R0 while the voltage
\* is above 0
MqGroupFollowsFormula(group, R0) ==
    /\ SameNumber(group.Voltage, <<11 * group.Raw_ADC, 13650>>)
    /\ group.Voltage[1] > 0 =>
           SameNumber(group.RsR0, Over(RsOf(group.Voltage), R0))

\* C21 as stated: for every raw count the voltage is count/4095 x 3.3, Rs is
\* (3.3 - voltage)/voltage when the voltage is above 0 and 0 otherwise, the
\* ratio is Rs/R0, and at a voltage <= 0 the MQ-9 ratio is 0 and the MQ-135
\* ratio falls back to 1.0.
C21_Mq135FallsBackToOne ==
    api.fn = "read_sensors" =>
        /\ MqGroupFollowsFormula(api.ret.MQ9, R0_MQ9)
        /\ MqGroupFollowsFormula(api.ret.MQ135, R0_MQ135)
        /\ api.ret.MQ9.Voltage[1] <= 0 => SameNumber(api.ret.MQ9.RsR0, <<0, 1>>)
        /\ api.ret.MQ135.Voltage[1] <= 0 => SameNumber(api.ret.MQ135.RsR0, <<1, 1>>)

\* C21 amended: for every raw count the voltage is count/4095 x 3.3, Rs is
\* (3.3 - voltage)/voltage when the voltage is above 0 and 0 otherwise, the
\* ratio is Rs/R0, and at a voltage <= 0 the ratio of either sensor is 0.
C21_BothFallBackToZero ==
    api.fn = "read_sensors" =>
        /\ MqGroupFollowsFormula(api.ret.MQ9, R0_MQ9)
        /\ MqGroupFollowsFormula(api.ret.MQ135, R0_MQ135)
        /\ api.ret.MQ9.Voltage[1] <= 0 => SameNumber(api.ret.MQ9.RsR0, <<0, 1>>)
        /\ api.ret.MQ135.Voltage[1] <= 0 => SameNumber(api.ret.MQ135.RsR0, <<0, 1>>)

\* The MQ-135 at count 0 next to an MQ-9 at half scale.
C21_Witness ==
    /\ api.fn = "read_sensors"
    /\ api.arg = <<2048, 0>>
    /\ SameNumber(api.ret.MQ135.RsR0, <<0, 1>>)
    /\ SameNumber(api.ret.MQ9.RsR0, <<204700, 100352>>)

(***************************************************************************)
(* Properties of the assembled packet.                                     *)
(***************************************************************************)
\* C22: the assembler only wraps reader outputs: the uv_sensor.voltage and
\* dust_sensor.voltage Readings of the packet are the Voltage values that
\* read_uv_sensor and read_dust_sensor returned in the tick, rounded to 2
\* decimal places.
C22_PacketVoltageIsReaderVoltage ==
    Done("assemble") =>
        /\ sensor_packet.uv_sensor.voltage = Reading(Round2(uv_data.Voltage), "V")
        /\ sensor_packet.dust_sensor.voltage = Reading(Round2(dust_data.Voltage), "V")

(***************************************************************************)
(* Properties of read_uv_sensor.                                           *)
(***************************************************************************)
\* (voltage - 0.99) * (15 - 0) / (2.8 - 0.99) + 0
LinearMap(voltage) ==
    <<15 * (100 * voltage[1] - 99 * voltage[2]), 181 * voltage[2]>>

\* The intensity is the linear map of the returned voltage where that is
\* not negative and 0 below 0.99 V, and the index is intensity / 0.1.
UvFollowsMap(r) ==
    /\ r.UV_Intensity[1] >= 0
    /\ (100 * r.Voltage[1] < 99 * r.Voltage[2]) => r.UV_Intensity[1] = 0
    /\ (100 * r.Voltage[1] >= 99 * r.Voltage[2]) =>
           SameNumber(r.UV_Intensity, LinearMap(r.Voltage))
    /\ SameNumber(r.UV_Index, <<10 * r.UV_Intensity[1], r.UV_Intensity[2]>>)

\* C23 as stated: for every set of 8 raw samples the UV intensity is the
\* linear map of the averaged voltage from [0.99, 2.8] onto [0, 15], is never
\* negative (0 below 0.99 V), stays within [0, 15], and the UV index is
\* intensity / 0.1.
C23_IntensityWithinScale ==
    api.fn = "read_uv_sensor" =>
        /\ UvFollowsMap(api.ret)
        /\ api.ret.UV_Intensity[1] <= 15 * api.ret.UV_Intensity[2]

\* C23 amended: for every set of 8 raw samples the UV intensity is the
\* linear map of the averaged voltage from [0.99, 2.8] onto [0, 15], is never
\* negative (0 below 0.99 V) and has no upper clamp, so that it is above 15
\* exactly when the voltage is above 2.8 V; the UV index is intensity / 0.1.
C23_IntensityClampedBelowOnly ==
    api.fn = "read_uv_sensor" =>
        /\ UvFollowsMap(api.ret)
        /\ (api.ret.UV_Intensity[1] > 15 * api.ret.UV_Intensity[2]) <=>
               (10 * api.ret.Voltage[1] > 28 * api.ret.Voltage[2])

\* Eight samples at full scale: 3.3 V and an intensity above 19.
C23_Witness ==
    /\ api.fn = "read_uv_sensor"
    /\ api.arg = UvSamples(AdcMax, 0)
    /\ SameNumber(api.ret.Voltage, <<33, 10>>)
    /\ api.ret.UV_Intensity[1] > 19 * api.ret.UV_Intensity[2]

(***************************************************************************)
(* Properties of the sender's peer table.                                  *)
(***************************************************************************)
\* C24: the sender registers exactly one peer, once, before the first tick,
\* and no tick adds, removes or changes a peer: the one add_peer call is the
\* startup step before tick 1, it is the only step that changes the table,
\* the table never holds anything but the receiver's address, once, and it
\* is the same in every state of the loop, also when a send fails.  (When
\* _e.add_peer itself raises, the table stays empty for the whole run.)
C24_PeerTableFixed ==
    [][ /\ (pc = "add_peer") => (tick = 0 /\ peers = <<>>)
        /\ (pc # "add_peer") => (peers' = peers)
        /\ (tick >= 1) => (peers' = peers /\ pc' # "add_peer")
        /\ (pc = "add_peer" /\ stdout' = "Added peer") => (peers' = <<receiver_mac>>)
        /\ peers' \in {<<>>, <<receiver_mac>>} ]_vars

\* The third tick's send has failed and the table still holds the one peer.
C24_Witness ==
    /\ tick = 3
    /\ Done("send_packet")
    /\ stdout = "Error sending packet"
    /\ peers = <<receiver_mac>>

(***************************************************************************)
(* Properties of the humidity placeholder.                                 *)
(***************************************************************************)
\* C25: the humidity of every packet lies in the band 23..26 whatever the
\* hardware presents, and the packet carries it as an explicitly simulated
\* value: its entry is told apart from an ordinary Reading of a real sensor
\* (such as the temperature's) by more than the value and the unit.
C25_HumidityMarkedSimulated ==
    Done("assemble") =>
        LET humidity == sensor_packet.bme280.humidity
        IN  /\ humidity.value >= 2300 /\ humidity.value <= 2600
            /\ DOMAIN humidity # DOMAIN sensor_packet.bme280.temperature

(***************************************************************************)
(* Properties of the dust label.                                           *)
(***************************************************************************)
\* The upper bounds of calculate_aqi's branches, in tenths of ug/m3, with
\* the label of each branch; a density above the last bound has the capped
\* index 500, the top of the last band.
DensityBands ==
    << <<120, "Good">>, <<354, "Moderate">>,
       <<554, "Unhealthy for Sensitive Groups">>, <<1504, "Unhealthy">>,
       <<2504, "Very Unhealthy">>, <<5004, "Hazardous">> >>

BandLabel(density) ==
    LET fits == {i \in DOMAIN DensityBands :
                    10 * density[1] <= DensityBands[i][1] * density[2]}
    IN  IF fits = {} THEN "Hazardous"
        ELSE DensityBands[CHOOSE i \in fits : \A j \in fits : i <= j][2]

\* C26: for every dust density reachable from a raw ADC count 0..4095, the
\* health level reported by read_dust_sensor is the label of the
\* calculate_aqi band (branch) the density falls into; a density just above
\* a band's upper bound is never labelled with the lower band's name.
C26_LabelOfDensityBand ==
    api.fn = "read_dust_sensor" =>
        api.ret.Health_Level = BandLabel(api.ret.Dust_Density)

(***************************************************************************)
(* Properties of the gas tables over the ratio.                            *)
(***************************************************************************)
\* The largest value of a gas's table.
MaxOf(table) ==
    LET values == {table.steps[i][2] : i \in DOMAIN table.steps} \cup {table.floor}
    IN  CHOOSE v \in values : \A w \in values : w <= v

GasesAtMaximum(group, table) ==
    \A gas \in DOMAIN table : group[gas] = MaxOf(table[gas])

\* C27: for every gas of both sensors the concentration is non-increasing in
\* the ratio (the next larger ratio of the grid never gives a larger
\* concentration), a ratio of 0 gives the gas's maximum table value, and
\* read_sensors produces the ratio 0, with every gas at its maximum, both
\* for raw count 0 and for raw count 4095.
C27_NonIncreasingInRatio ==
    /\ api.fn = "calculate_concentration_mq9" =>
          /\ api.ret >= calculate_concentration_mq9(
                            <<api.arg[1][1] + 1, api.arg[1][2]>>, api.arg[2])
          /\ api.ret <= MaxOf(Mq9Table[api.arg[2]])
          /\ api.arg[1][1] = 0 => api.ret = MaxOf(Mq9Table[api.arg[2]])
    /\ api.fn = "calculate_concentration_mq135" =>
          /\ api.ret >= calculate_concentration_mq135(
                            <<api.arg[1][1] + 1, api.arg[1][2]>>, api.arg[2])
          /\ api.ret <= MaxOf(Mq135Table[api.arg[2]])
          /\ api.arg[1][1] = 0 => api.ret = MaxOf(Mq135Table[api.arg[2]])
    /\ api.fn = "read_sensors" =>
          /\ api.arg[1] \in {0, 4095} =>
                /\ api.ret.MQ9.RsR0[1] = 0
                /\ GasesAtMaximum(api.ret.MQ9, Mq9Table)
          /\ api.arg[2] \in {0, 4095} =>
                /\ api.ret.MQ135.RsR0[1] = 0
                /\ GasesAtMaximum(api.ret.MQ135, Mq135Table)

\* The MQ-9 at full scale, 3.3 V: Rs is 0 and the gases are at their maxima,
\* next to an MQ-135 at count 0.
C27_Witness ==
    /\ api.fn = "read_sensors"
    /\ api.arg = <<4095, 0>>
    /\ api.ret.MQ9.Voltage[1] * 10 = 33 * api.ret.MQ9.Voltage[2]
    /\ api.ret.MQ9.RsR0[1] = 0
    /\ api.ret.MQ9.LPG = 10000 /\ api.ret.MQ9.CO = 1000 /\ api.ret.MQ9.CH4 = 5000
    /\ api.ret.MQ135.CO2 = 500 /\ api.ret.MQ135.Ethanol = 300

(***************************************************************************)
(* Properties of the logger without a file name.                           *)
(***************************************************************************)
HoldsRow(fs) == \E n \in DOMAIN fs : \E i \in DOMAIN fs[n] : fs[n][i].kind = "row"

\* C28: no data row is written unless create_new_csv has assigned a log file
\* name: a create_new_csv call skipped for a failed init assigns none, and
\* while csv_filename is None every log_to_csv call, also one made after an
\* init_sd_card retry has succeeded, writes no row to any file and returns
\* normally.
C28_NoRowWithoutFileName ==
    [][ /\ (tick' = tick + 1 /\ api'.fn = "create_new_csv" /\ ~sd_available) =>
              (csv_filename' = csv_filename /\ files' = files)
        /\ (tick' = tick + 1 /\ api'.fn = "log_to_csv" /\ csv_filename = NoneVal) =>
              /\ files' = files
              /\ ~api'.raised
              /\ log_result' \in {"skipped", "error"}
        /\ HoldsRow(files') => csv_filename' # NoneVal ]_vars

\* The startup init failed, create_new_csv was skipped, the retry succeeded
\* and the log call that followed wrote nothing and reported the error.
C28_Witness ==
    /\ trace = <<"init_sd_card:failed", "create_new_csv", "init_sd_card:ok",
                 "log_to_csv">>
    /\ sd_available
    /\ csv_filename = NoneVal
    /\ log_result = "error"
    /\ stdout = "Error logging to CSV"
    /\ DOMAIN files = {}

(***************************************************************************)
(* Properties of the two threads of the desktop application.               *)
(***************************************************************************)
\* C29: in every interleaving of the GUI thread's setSource and
\* setSerialParams with run(), no exception escapes run() and the reader
\* loop keeps running, and run() never dereferences a serial_conn that was
\* set to None between its check and its use.
C29_RunSurvivesEveryInterleaving ==
    /\ gui.state # "dead"
    /\ gui.read # "AttributeError"

(***************************************************************************)
(* Properties of the warning check.                                        *)
(***************************************************************************)
\* What the k-th delivered packet is for a sensor: "out" for a value out of
\* the limits of an enabled warning, "reset" for a value within them or a
\* disabled warning, "skip" when the packet or the settings lack the sensor.
PacketClass(k, sensor) ==
    LET d == dashboard.delivered[k]
        items == {i \in DOMAIN d.warning_settings : d.warning_settings[i][1] = sensor}
        group == warning_sensor_mapping[sensor][1]
        key == warning_sensor_mapping[sensor][2]
    IN  IF items = {} THEN "skip"
        ELSE LET settings == d.warning_settings[CHOOSE i \in items : TRUE][2]
             IN  IF ~settings.enabled THEN "reset"
                 ELSE IF key \notin DOMAIN d.sensor_data[group] THEN "skip"
                 ELSE IF \/ d.sensor_data[group][key].value < settings.lower
                         \/ d.sensor_data[group][key].value > settings.upper
                 THEN "out" ELSE "reset"

\* The packets that begin a run of consecutive out-of-bounds packets.
RunStarts(sensor) ==
    {k \in DOMAIN dashboard.delivered :
        /\ PacketClass(k, sensor) = "out"
        /\ LET before == {j \in 1..(k - 1) : PacketClass(j, sensor) # "skip"}
           IN  before # {} =>
                 PacketClass(CHOOSE j \in before : \A h \in before : h <= j,
                             sensor) = "reset"}

WarningEntries(sensor) ==
    {i \in DOMAIN dashboard.log : dashboard.log[i].sensor = sensor}

\* A warning entry is added only for a sensor whose warning_state is False,
\* and sets it.
WarnsOnlyFromFalse ==
    [][ dashboard'.log # dashboard.log =>
          \E sensor \in DOMAIN warning_sensor_mapping, value \in Values :
              /\ dashboard'.log = Append(dashboard.log,
                                         [sensor |-> sensor, value |-> value])
              /\ value < LowerLimit \/ value > UpperLimit
              /\ ~dashboard.warning_state[sensor]
              /\ dashboard'.warning_state[sensor] ]_vars

\* No sensor has more entries than runs, and once every call has returned
\* it has one entry for each run.
OneWarningPerRun ==
    \A sensor \in DOMAIN warning_sensor_mapping :
        /\ Cardinality(WarningEntries(sensor)) <= Cardinality(RunStarts(sensor))
        /\ dashboard.calls = <<>> =>
              Cardinality(WarningEntries(sensor)) = Cardinality(RunStarts(sensor))

\* C30: warnings are edge-triggered per sensor: for an enabled sensor a
\* warning is logged only when a value goes out of bounds while
\* warning_state is False, so any run of consecutive out-of-bounds packets
\* produces exactly one warning entry, and a new one is produced only after
\* an in-bounds value, or a disabled warning, has reset the state.
C30_EdgeTriggeredWarnings ==
    WarnsOnlyFromFalse /\ []OneWarningPerRun
====
